---- MODULE Spec2Model ----
(***************************************************************************)
(* Model of the money-tracker aggregation and insight engine.              *)
(*                                                                         *)
(* The page components and the API route are modelled:                     *)
(*   Spec        the Data Tools page (src/app/data-tools/page.tsx) with    *)
(*               all its filter controls, on a host in the UTC time zone;  *)
(*   SpecZone    the Data Tools page on hosts of several time zones;       *)
(*   SpecHome    the home page (src/app/page.tsx): totals, month groups;   *)
(*   SpecSort    the list, the month buttons and the sort headers that     *)
(*               both Data Tools variants have;                            *)
(*   SpecInput   the Data Tools page with any text typed into the two      *)
(*               amount inputs;                                            *)
(*   SpecExport  the Data Tools page with its Export CSV button;           *)
(*   SpecReasons the Data Tools page over a list of many expense reasons;  *)
(*   SpecStore   POST /api/transactions (src/app/api/transactions/route.ts)*)
(*               on the transactions table, the database being reachable;  *)
(*   SpecTable   GET, POST and DELETE /api/transactions served one request *)
(*               at a time on the transactions table;                      *)
(*   SpecHandlers the three route handlers running concurrently in one     *)
(*               server process, from ensureInit() to their statement;     *)
(*   SpecPage    the home page with its requests in flight and the route   *)
(*               serving them; SpecPageFair adds that every fetch settles. *)
(* The earlier Data Tools variant (src/unnamed/part_000, the runway view)  *)
(* is modelled by runwayInsights, runwayCard and                           *)
(* sortedAndFilteredTransactions over the same state.                      *)
(*                                                                         *)
(* Representation:                                                         *)
(*   - a date string "YYYY-MM-DD" is the tuple <<y, m, d>>; the empty      *)
(*     string is <<>>; string comparison of two date strings is the        *)
(*     lexicographic comparison of the tuples;                             *)
(*   - a text string is a sequence of one-character strings;               *)
(*   - amounts are integers; a JS number produced by a division is an      *)
(*     exact fraction [n, d] in lowest terms, with d = 0 for the           *)
(*     non-finite values (n = 0: NaN, n = 1: Infinity, n = -1: -Infinity). *)
(*     IEEE-754 rounding of the quotients is not modelled;                 *)
(*   - now is the local wall clock [date, hour]; tz is the host's offset   *)
(*     from UTC in hours (local = UTC + tz).                               *)
(***************************************************************************)
EXTENDS Integers, Sequences, FiniteSets, TLC

VARIABLES
    transactions,   \* useState<Transaction[]>([]) of the mounted page
    loading,        \* useState(true)
    error,          \* useState<string | null>(null)
    sortField,      \* Data Tools: "date" | "amount" | "type"
    sortOrder,      \* Data Tools: "asc" | "desc"
    showAllMonths,  \* useState(false) of the mounted page
    searchQuery,    \* Data Tools filter state
    startDate,
    endDate,
    minAmount,
    maxAmount,
    typeFilter,
    now,            \* the ambient clock read by new Date()
    tz,             \* the host time zone
    ticks,          \* number of clock steps taken
    minAmountInput, \* Data Tools: the text in the "Min" number input
    maxAmountInput, \* Data Tools: the text in the "Max" number input
    download,       \* Data Tools: the text of the last exported file, <<>> before
    rows,           \* the transactions table, in insertion order
    lastInsertRowid,\* the table's AUTOINCREMENT sequence
    response,       \* the last response of the API route
    created_at,     \* the created_at column: row id -> datetime('now') of its insert
    dbClock,        \* the database clock in seconds, as last read by an insert
    requests,       \* home page: the requests issued so far, in the order of issue
    submitting,     \* home page: useState(false)
    initialized,    \* route.ts: let initialized = false
    tableExists,    \* the database has the transactions table
    handlers        \* the route handlers called so far, each with its position

vars == <<transactions, loading, error, sortField, sortOrder, showAllMonths,
          searchQuery, startDate, endDate, minAmount, maxAmount, typeFilter,
          now, tz, ticks, minAmountInput, maxAmountInput, download,
          rows, lastInsertRowid, response, created_at, dbClock,
          requests, submitting, initialized, tableExists, handlers>>

\* what is in the document besides the React state
domVars == <<minAmountInput, maxAmountInput, download>>

\* the server side
storeVars == <<rows, lastInsertRowid, response, created_at, dbClock>>

\* the server process and the database schema
serverVars == <<initialized, tableExists, handlers>>

\* the home page's requests and its form state
homeVars == <<requests, submitting>>

filterVars == <<sortField, sortOrder, searchQuery, startDate, endDate,
                minAmount, maxAmount, typeFilter>>

-----------------------------------------------------------------------------
(* Bounds *)

MaxTx == 3

MaxTicks == 2

-----------------------------------------------------------------------------
(* Calendar: what the JS Date object computes *)

IsLeapYear(y) == (y % 4 = 0 /\ y % 100 # 0) \/ y % 400 = 0

MonthLength(y, m) ==
    IF m = 2 THEN (IF IsLeapYear(y) THEN 29 ELSE 28)
    ELSE IF m \in {4, 6, 9, 11} THEN 30 ELSE 31

\* new Date(year, monthIndex, day): monthIndex is zero-based and may be 12,
\* day may be 0 or negative; the constructor normalises both.
RECURSIVE MakeDate(_, _, _)
MakeDate(y, monthIndex, day) ==
    IF monthIndex > 11 THEN MakeDate(y + 1, monthIndex - 12, day)
    ELSE IF monthIndex < 0 THEN MakeDate(y - 1, monthIndex + 12, day)
    ELSE IF day < 1 THEN
        LET py == IF monthIndex = 0 THEN y - 1 ELSE y
            pm == IF monthIndex = 0 THEN 11 ELSE monthIndex - 1
        IN  MakeDate(py, pm, day + MonthLength(py, pm + 1))
    ELSE IF day > MonthLength(y, monthIndex + 1) THEN
        MakeDate(y, monthIndex + 1, day - MonthLength(y, monthIndex + 1))
    ELSE <<y, monthIndex + 1, day>>

getFullYear(date) == date[1]

getMonth(date) == date[2] - 1

getDate(date) == date[3]

\* d.setDate(n) on a local date d
setDate(date, n) == MakeDate(getFullYear(date), getMonth(date), n)

\* new Date(dateStr + "T00:00:00"): local midnight of the written day
ParseLocal(dateStr) == dateStr

\* number of days from 0000-03-01, the value getTime() is a multiple of
getTime(date) ==
    LET y == IF date[2] <= 2 THEN date[1] - 1 ELSE date[1]
        mp == IF date[2] <= 2 THEN date[2] + 9 ELSE date[2] - 3
    IN  365 * y + (y \div 4) - (y \div 100) + (y \div 400)
        + ((153 * mp + 2) \div 5) + date[3] - 1

\* instant.toISOString().split('T')[0]: the UTC calendar day of a local
\* wall-clock instant on a host tz hours east of UTC
toISODate(instant, zone) ==
    LET utcHour == instant.hour - zone
    IN  IF utcHour < 0 THEN setDate(instant.date, getDate(instant.date) - 1)
        ELSE IF utcHour > 23 THEN setDate(instant.date, getDate(instant.date) + 1)
        ELSE instant.date

MonthNames == <<"January", "February", "March", "April", "May", "June", "July",
                "August", "September", "October", "November", "December">>

\* the month name alone, the year left out of the format options
getMonthOnly(dateStr) ==
    LET date == ParseLocal(dateStr)
    IN  <<MonthNames[getMonth(date) + 1]>>

\* toLocaleDateString("en-GB", {month: "long", year: "numeric"})
getMonthYear(dateStr) ==
    LET date == ParseLocal(dateStr)
    IN  <<MonthNames[getMonth(date) + 1], getFullYear(date)>>

\* string comparison a <= b of two date strings
DateStrLE(a, b) ==
    \/ a[1] < b[1]
    \/ a[1] = b[1] /\ a[2] < b[2]
    \/ a[1] = b[1] /\ a[2] = b[2] /\ a[3] <= b[3]

-----------------------------------------------------------------------------
(* JS numbers *)

RECURSIVE GCD(_, _)
GCD(a, b) == IF b = 0 THEN a ELSE GCD(b, a % b)

Abs(x) == IF x < 0 THEN -x ELSE x

NaN == [n |-> 0, d |-> 0]

Num(k) == [n |-> k, d |-> 1]

IsFinite(r) == r.d # 0

Sign(x) == IF x > 0 THEN 1 ELSE IF x < 0 THEN -1 ELSE 0

\* the fraction p / q with q > 0, in lowest terms
Norm(p, q) ==
    LET g == GCD(Abs(p), q)
    IN  [n |-> p \div g, d |-> q \div g]

\* a / b
Div(a, b) ==
    IF a = NaN \/ b = NaN THEN NaN
    ELSE IF ~IsFinite(a) THEN
        (IF ~IsFinite(b) THEN NaN
         ELSE [n |-> a.n * (IF b.n < 0 THEN -1 ELSE 1), d |-> 0])
    ELSE IF ~IsFinite(b) THEN Num(0)
    ELSE IF b.n = 0 THEN [n |-> Sign(a.n), d |-> 0]
    ELSE Norm(a.n * b.d * Sign(b.n), a.d * Abs(b.n))

\* a * b
Mul(a, b) ==
    IF a = NaN \/ b = NaN THEN NaN
    ELSE IF IsFinite(a) /\ IsFinite(b) THEN Norm(a.n * b.n, a.d * b.d)
    ELSE [n |-> Sign(a.n) * Sign(b.n), d |-> 0]

\* a - b
Sub(a, b) ==
    IF a = NaN \/ b = NaN THEN NaN
    ELSE IF IsFinite(a) /\ IsFinite(b) THEN Norm(a.n * b.d - b.n * a.d, a.d * b.d)
    ELSE IF ~IsFinite(a) /\ ~IsFinite(b) THEN
        (IF a.n # 0 /\ a.n = -b.n THEN a ELSE NaN)
    ELSE IF ~IsFinite(a) THEN a
    ELSE [n |-> -b.n, d |-> 0]

\* a > b and a >= b; every comparison with NaN is false
Gt(a, b) ==
    IF a = NaN \/ b = NaN THEN FALSE
    ELSE IF IsFinite(a) /\ IsFinite(b) THEN a.n * b.d > b.n * a.d
    ELSE IF ~IsFinite(a) /\ ~IsFinite(b) THEN a.n > b.n
    ELSE IF ~IsFinite(a) THEN a.n > 0
    ELSE b.n < 0

Ge(a, b) == a # NaN /\ b # NaN /\ (a = b \/ Gt(a, b))

\* Math.round: the nearest integer, halves rounded towards +Infinity
MathRound(r) ==
    IF IsFinite(r) THEN Num((2 * r.n + r.d) \div (2 * r.d)) ELSE r

-----------------------------------------------------------------------------
(* Strings *)

UpperCase == <<"A", "B", "C", "D", "E", "F", "G", "H", "I", "J", "K", "L", "M",
               "N", "O", "P", "Q", "R", "S", "T", "U", "V", "W", "X", "Y", "Z">>

LowerCase == <<"a", "b", "c", "d", "e", "f", "g", "h", "i", "j", "k", "l", "m",
               "n", "o", "p", "q", "r", "s", "t", "u", "v", "w", "x", "y", "z">>

LowerOf ==
    [c \in {UpperCase[k] : k \in DOMAIN UpperCase} |->
        LowerCase[CHOOSE k \in DOMAIN UpperCase : UpperCase[k] = c]]

toLowerCase(s) ==
    [i \in DOMAIN s |-> IF s[i] \in DOMAIN LowerOf THEN LowerOf[s[i]] ELSE s[i]]

\* s.includes(q)
includes(s, q) ==
    \E i \in 0..(Len(s) - Len(q)) : SubSeq(s, i + 1, i + Len(q)) = q

Digits == <<"0", "1", "2", "3", "4", "5", "6", "7", "8", "9">>

IsDigit(c) == \E k \in DOMAIN Digits : Digits[k] = c

DigitValue(c) == (CHOOSE k \in DOMAIN Digits : Digits[k] = c) - 1

RECURSIVE DigitsValue(_, _)
DigitsValue(s, acc) ==
    IF s = <<>> \/ ~IsDigit(Head(s)) THEN acc
    ELSE DigitsValue(Tail(s), 10 * acc + DigitValue(Head(s)))

\* parseFloat(s) for the integer literals used here: the longest numeric
\* prefix, NaN when there is none
parseFloat(s) ==
    IF s # <<>> /\ IsDigit(Head(s)) THEN Num(DigitsValue(s, 0))
    ELSE IF Len(s) > 1 /\ Head(s) = "-" /\ IsDigit(s[2])
         THEN Num(-DigitsValue(Tail(s), 0))
    ELSE NaN

-----------------------------------------------------------------------------
(* Transactions: src/types/transaction.ts *)

Types == {"income", "expense", "saved"}

Tx(id, date, amount, type, reason, description) ==
    [id |-> id, date |-> date, amount |-> amount, type |-> type,
     reason |-> reason, description |-> description]

\* The rows a response of GET /api/transactions is drawn from, in the order
\* GET returns them (ORDER BY date DESC, created_at DESC).
TxPool == <<
    Tx(9, <<2024, 3, 2>>, 400, "expense",
       <<"L", "u", "n", "c", "h", " ", "o", "u", "t">>, <<>>),
    Tx(8, <<2024, 3, 2>>, 200, "saved",
       <<"D", "e", "p", "o", "s", "i", "t">>, <<>>),
    Tx(7, <<2024, 3, 1>>, 1000, "income",
       <<"S", "a", "l", "a", "r", "y">>, <<"M", "a", "r", "c", "h">>),
    Tx(5, <<2024, 2, 29>>, 70, "expense",
       <<"R", "e", "n", "t">>, <<"f", "l", "a", "t">>),
    Tx(6, <<2024, 2, 23>>, 500, "income",
       <<"B", "o", "n", "u", "s">>, <<"l", "u", "n", "a">>),
    Tx(1, <<2023, 3, 1>>, 8, "expense",
       <<"b", "u", "s">>, <<"t", "o", " ", "l", "u", "n", "c", "h">>) >>

\* the elements of s at the positions of the set idx, in the order of s
RECURSIVE Pick(_, _)
Pick(s, idx) ==
    IF s = <<>> THEN <<>>
    ELSE LET rest == Pick(Tail(s), {i - 1 : i \in idx \ {1}})
         IN  IF 1 \in idx THEN <<Head(s)>> \o rest ELSE rest

\* the possible response bodies: at most MaxTx rows of the pool
Responses ==
    {Pick(TxPool, idx) : idx \in {x \in SUBSET DOMAIN TxPool : Cardinality(x) <= MaxTx}}

\* arr.filter(t => t.type === type).reduce((s, t) => s + t.amount, 0)
RECURSIVE SumAmount(_, _)
SumAmount(arr, type) ==
    IF arr = <<>> THEN 0
    ELSE (IF Head(arr).type = type THEN Head(arr).amount ELSE 0)
         + SumAmount(Tail(arr), type)

\* d.getMonth() === now.getMonth() && d.getFullYear() === now.getFullYear()
InCurrentMonth(t, nw) ==
    LET d == ParseLocal(t.date)
    IN  getMonth(d) = getMonth(nw.date) /\ getFullYear(d) = getFullYear(nw.date)

Null == [null |-> TRUE]

\* the value setError(message) stores: a string, kept apart from null
Message(text) == [message |-> text]

\* Array.prototype.sort, the stable ordering; cmp[j][i] is the comparator's
\* result for (arr[j], arr[i])
StableSort(arr, cmp) ==
    LET n == Len(arr)
        pos == [i \in 1..n |->
                   1 + Cardinality({j \in 1..n :
                           \/ cmp[j][i] < 0
                           \/ cmp[j][i] = 0 /\ j < i})]
    IN  [k \in 1..n |-> arr[CHOOSE i \in 1..n : pos[i] = k]]

Reverse(arr) == [k \in 1..Len(arr) |-> arr[Len(arr) + 1 - k]]

-----------------------------------------------------------------------------
(* Data Tools page: src/app/data-tools/page.tsx *)

SortFields == {"date", "amount", "type"}

\* a.type.localeCompare(b.type)
localeCompare(a, b) ==
    LET rank(x) == CASE x = "expense" -> 1 [] x = "income" -> 2 [] OTHER -> 3
    IN  Sign(rank(a) - rank(b))

\* the comparator of result.sort (lines 108-119)
SortCompare(a, b, field, order) ==
    LET comparison ==
            IF field = "date" THEN getTime(a.date) - getTime(b.date)
            ELSE IF field = "amount" THEN a.amount - b.amount
            ELSE IF field = "type" THEN localeCompare(a.type, b.type)
            ELSE 0
    IN  IF order = "asc" THEN comparison ELSE -comparison

\* the filter settings as one value
FilterState ==
    [sortField |-> sortField, sortOrder |-> sortOrder,
     showAllMonths |-> showAllMonths, searchQuery |-> searchQuery,
     startDate |-> startDate, endDate |-> endDate,
     minAmount |-> minAmount, maxAmount |-> maxAmount,
     typeFilter |-> typeFilter]

\* the initial useState values (lines 33-42)
DefaultFilters ==
    [sortField |-> "date", sortOrder |-> "desc", showAllMonths |-> FALSE,
     searchQuery |-> <<>>, startDate |-> <<>>, endDate |-> <<>>,
     minAmount |-> <<>>, maxAmount |-> <<>>, typeFilter |-> "all"]

\* the month filter governed by the month buttons alone
MonthFilterByToggle(arr, f, nw) ==
    IF ~f.showAllMonths
    THEN SelectSeq(arr, LAMBDA t : InCurrentMonth(t, nw))
    ELSE arr

\* 1. Month Quick Filter
MonthQuickFilter(arr, f, nw) ==
    IF ~f.showAllMonths /\ f.startDate = <<>> /\ f.endDate = <<>>
    THEN SelectSeq(arr, LAMBDA t : InCurrentMonth(t, nw))
    ELSE arr

\* 2. Date Range
DateRangeFilter(arr, f) ==
    LET r1 == IF f.startDate # <<>>
              THEN SelectSeq(arr, LAMBDA t : DateStrLE(f.startDate, t.date))
              ELSE arr
    IN  IF f.endDate # <<>>
        THEN SelectSeq(r1, LAMBDA t : DateStrLE(t.date, f.endDate))
        ELSE r1

\* the amount range with its two ends excluded
AmountRangeExclusive(arr, f) ==
    LET r1 == IF f.minAmount # <<>>
              THEN SelectSeq(arr, LAMBDA t : Gt(Num(t.amount), parseFloat(f.minAmount)))
              ELSE arr
    IN  IF f.maxAmount # <<>>
        THEN SelectSeq(r1, LAMBDA t : Gt(parseFloat(f.maxAmount), Num(t.amount)))
        ELSE r1

\* 3. Amount Range
AmountRangeFilter(arr, f) ==
    LET r1 == IF f.minAmount # <<>>
              THEN SelectSeq(arr, LAMBDA t : Ge(Num(t.amount), parseFloat(f.minAmount)))
              ELSE arr
    IN  IF f.maxAmount # <<>>
        THEN SelectSeq(r1, LAMBDA t : Ge(parseFloat(f.maxAmount), Num(t.amount)))
        ELSE r1

\* 4. Search
SearchFilter(arr, f) ==
    IF f.searchQuery # <<>>
    THEN LET query == toLowerCase(f.searchQuery)
         IN  SelectSeq(arr, LAMBDA t :
                 \/ includes(toLowerCase(t.reason), query)
                 \/ t.description # <<>> /\ includes(toLowerCase(t.description), query))
    ELSE arr

\* 5. Type
TypeFilter(arr, f) ==
    IF f.typeFilter # "all"
    THEN SelectSeq(arr, LAMBDA t : t.type = f.typeFilter)
    ELSE arr

\* the useMemo body of filteredTransactions (lines 62-122)
FilterAndSort(txs, f, nw) ==
    LET r1 == MonthQuickFilter(txs, f, nw)
        r2 == DateRangeFilter(r1, f)
        r3 == AmountRangeFilter(r2, f)
        r4 == SearchFilter(r3, f)
        r5 == TypeFilter(r4, f)
    IN  StableSort(r5, [j \in DOMAIN r5 |-> [i \in DOMAIN r5 |->
                           SortCompare(r5[j], r5[i], f.sortField, f.sortOrder)]])

filteredTransactions == FilterAndSort(transactions, FilterState, now)

\* the number of completed days, 0 on the first day of the month
daysCompleted(nw) == getDate(nw.date) - 1

\* const daysInMonthSoFar = now.getDate()
daysInMonthSoFar(nw) == getDate(nw.date)

\* day 0 of the current month: the length of the previous month
daysInPreviousMonth(nw) ==
    getDate(MakeDate(getFullYear(nw.date), getMonth(nw.date), 0))

\* const daysInMonth = new Date(now.getFullYear(), now.getMonth() + 1, 0).getDate()
daysInMonth(nw) ==
    getDate(MakeDate(getFullYear(nw.date), getMonth(nw.date) + 1, 0))

\* the totals taken over the unfiltered list
currentSetUnfiltered(txs, filtered) == txs

\* const currentSet = filteredTransactions (the pool of the totals)
currentSet(txs, filtered) == filtered

\* the burn-rate pool taken from the filtered view
currentMonthOfFiltered(txs, filtered, nw) ==
    SelectSeq(filtered, LAMBDA t : InCurrentMonth(t, nw))

\* const currentMonthTransactions = transactions.filter(...) (the burn-rate pool)
currentMonthTransactions(txs, filtered, nw) ==
    SelectSeq(txs, LAMBDA t : InCurrentMonth(t, nw))

\* const dailyBurn = cmExpenses / daysInMonthSoFar
dailyBurn(cmExpenses, days) == Div(Num(cmExpenses), Num(days))

\* const projectedBalance = cmIncome - projectedExpense - (saved of the month)
projectedBalance(cmIncome, projectedExpense, cmSaved) ==
    Sub(Sub(Num(cmIncome), projectedExpense), Num(cmSaved))

\* the rate without its income > 0 guard
savingsRateUnguarded(saved, income) ==
    MathRound(Mul(Div(Num(saved), Num(income)), Num(100)))

\* cmIncome > 0 ? Math.round((saved / cmIncome) * 100) : 0
savingsRate(saved, income) ==
    IF income > 0
    THEN MathRound(Mul(Div(Num(saved), Num(income)), Num(100)))
    ELSE Num(0)

\* cmIncome > 0 ? (cmExpenses / cmIncome) * 100 : 0
incomeRatio(cmExpenses, cmIncome) ==
    IF cmIncome > 0
    THEN Mul(Div(Num(cmExpenses), Num(cmIncome)), Num(100))
    ELSE Num(0)

\* const d = new Date(); d.setDate(d.getDate() - i);
\* d.toISOString().split('T')[0]
SparklineDate(nw, zone, i) ==
    toISODate([date |-> setDate(nw.date, getDate(nw.date) - i), hour |-> nw.hour],
              zone)

\* transactions.filter(t => t.date === dateStr && t.type === 'expense')
\*             .reduce((s, t) => s + t.amount, 0)
DayTotal(txs, dateStr) ==
    SumAmount(SelectSeq(txs, LAMBDA t : t.date = dateStr), "expense")

\* Array.from({ length: 7 }, (_, i) => ...).reverse()
last7Days(txs, nw, zone) ==
    Reverse([k \in 1..7 |->
        LET dateStr == SparklineDate(nw, zone, k - 1)
        IN  [date |-> dateStr, amount |-> DayTotal(txs, dateStr)]])

\* the burn-rate part of insights (lines 138-151 and 182)
BurnRate(txs, filtered, nw) ==
    LET cm == currentMonthTransactions(txs, filtered, nw)
        cmExpenses == SumAmount(cm, "expense")
        cmIncome == SumAmount(cm, "income")
        cmSaved == SumAmount(cm, "saved")
        burn == dailyBurn(cmExpenses, daysInMonthSoFar(nw))
        projectedExpense == Mul(burn, Num(daysInMonth(nw)))
    IN  [dailyBurn |-> burn,
         projectedBalance |-> projectedBalance(cmIncome, projectedExpense, cmSaved),
         savingsRate |-> savingsRate(cmSaved, cmIncome),
         incomeRatio |-> incomeRatio(cmExpenses, cmIncome)]

\* s.split(' ')[0]: the text before the first space character
SplitFirst(s) ==
    LET spaces == {i \in DOMAIN s : s[i] = " "}
    IN  IF spaces = {} THEN s
        ELSE SubSeq(s, 1, (CHOOSE i \in spaces : \A j \in spaces : i <= j) - 1)

\* t.reason.split(' ')[0].toLowerCase()
reasonKey(t) == toLowerCase(SplitFirst(t.reason))

\* reasonMap[reason] = (reasonMap[reason] || 0) + t.amount, on an object
\* kept as its own properties in creation order
AddReason(map, key, amount) ==
    IF \E i \in DOMAIN map : map[i].key = key
    THEN [i \in DOMAIN map |->
             IF map[i].key = key
             THEN [key |-> key, value |-> map[i].value + amount]
             ELSE map[i]]
    ELSE Append(map, [key |-> key, value |-> amount])

\* the forEach over the expenses of the current set
RECURSIVE ReasonMap(_, _)
ReasonMap(expenses, k) ==
    IF k = 0 THEN <<>>
    ELSE AddReason(ReasonMap(expenses, k - 1),
                   reasonKey(expenses[k]), expenses[k].amount)

\* a property name that is an array index: a canonical decimal numeral
IsArrayIndex(key) ==
    /\ key # <<>>
    /\ \A i \in DOMAIN key : IsDigit(key[i])
    /\ Len(key) = 1 \/ Head(key) # "0"

\* Object.entries: the array-index keys in ascending numeric order, then the
\* other keys in creation order
ObjectEntries(map) ==
    LET indices == SelectSeq(map, LAMBDA e : IsArrayIndex(e.key))
        names == SelectSeq(map, LAMBDA e : ~IsArrayIndex(e.key))
    IN  StableSort(indices, [j \in DOMAIN indices |-> [i \in DOMAIN indices |->
                DigitsValue(indices[j].key, 0) - DigitsValue(indices[i].key, 0)]])
        \o names

\* Object.entries(reasonMap).sort((a, b) => b[1] - a[1]).slice(0, 5)
topReasons(cs) ==
    LET expenses == SelectSeq(cs, LAMBDA t : t.type = "expense")
        entries == ObjectEntries(ReasonMap(expenses, Len(expenses)))
        sorted == StableSort(entries, [j \in DOMAIN entries |-> [i \in DOMAIN entries |->
                      entries[i].value - entries[j].value]])
    IN  SubSeq(sorted, 1, IF Len(sorted) < 5 THEN Len(sorted) ELSE 5)

\* insights computed without the early return for an empty list
InsightsUnguarded(txs, filtered, nw, zone) ==
    LET cs == currentSet(txs, filtered)
        totalSaved == SumAmount(cs, "saved")
        totalIncome == SumAmount(cs, "income")
        totalExpense == SumAmount(cs, "expense")
        rate == BurnRate(txs, filtered, nw)
    IN  [liquidBalance |-> totalIncome - totalExpense - totalSaved,
         totalSaved |-> totalSaved,
         dailyBurn |-> rate.dailyBurn,
         projectedBalance |-> rate.projectedBalance,
         savingsRate |-> rate.savingsRate,
         topReasons |-> topReasons(cs),
         last7Days |-> last7Days(txs, nw, zone),
         incomeRatio |-> rate.incomeRatio]

\* the useMemo body of insights (lines 124-184)
Insights(txs, filtered, nw, zone) ==
    IF Len(txs) = 0 THEN Null
    ELSE
        LET cs == currentSet(txs, filtered)
            totalSaved == SumAmount(cs, "saved")
            totalIncome == SumAmount(cs, "income")
            totalExpense == SumAmount(cs, "expense")
            rate == BurnRate(txs, filtered, nw)
        IN  [liquidBalance |-> totalIncome - totalExpense - totalSaved,
             totalSaved |-> totalSaved,
             dailyBurn |-> rate.dailyBurn,
             projectedBalance |-> rate.projectedBalance,
             savingsRate |-> rate.savingsRate,
             topReasons |-> topReasons(cs),
             last7Days |-> last7Days(txs, nw, zone),
             incomeRatio |-> rate.incomeRatio]

insights == Insights(transactions, filteredTransactions, now, tz)

-----------------------------------------------------------------------------
(* The runway variant of the Data Tools page: src/unnamed/part_000 *)

\* currentMonthExpenses (lines 101-104)
currentMonthExpenses(txs, nw) ==
    SelectSeq(txs, LAMBDA t : InCurrentMonth(t, nw) /\ t.type = "expense")

\* dailyBurn > 0 ? Math.floor(liquidBalance / dailyBurn) : '∞'
runway(liquidBalance, burn) ==
    IF Gt(burn, Num(0))
    THEN LET q == Div(Num(liquidBalance), burn)
         IN  [sentinel |-> FALSE, days |-> q.n \div q.d]
    ELSE [sentinel |-> TRUE, days |-> 0]

\* the useMemo body of insights (lines 88-130)
RunwayInsights(txs, nw) ==
    IF Len(txs) = 0 THEN Null
    ELSE
        LET totalSaved == SumAmount(txs, "saved")
            totalIncome == SumAmount(txs, "income")
            totalExpense == SumAmount(txs, "expense")
            liquidBalance == totalIncome - totalExpense - totalSaved
            monthlyOutflow == SumAmount(currentMonthExpenses(txs, nw), "expense")
            burn == Div(Num(monthlyOutflow), Num(getDate(nw.date)))
        IN  [runway |-> runway(liquidBalance, burn),
             dailyBurn |-> burn,
             savingsRate |-> IF totalIncome > 0
                             THEN MathRound(Mul(Div(Num(totalSaved), Num(totalIncome)),
                                                Num(100)))
                             ELSE Num(0),
             liquidBalance |-> liquidBalance,
             totalSaved |-> totalSaved]

runwayInsights == RunwayInsights(transactions, now)

\* the comparator of result.sort (lines 70-82): amounts compare by their
\* signed value, income positive and everything else negative
RunwaySortCompare(a, b, field, order) ==
    LET valA == IF a.type = "income" THEN a.amount ELSE -a.amount
        valB == IF b.type = "income" THEN b.amount ELSE -b.amount
        comparison ==
            IF field = "date" THEN getTime(a.date) - getTime(b.date)
            ELSE IF field = "amount" THEN valA - valB
            ELSE IF field = "type" THEN localeCompare(a.type, b.type)
            ELSE 0
    IN  IF order = "asc" THEN comparison ELSE -comparison

\* the useMemo body of sortedAndFilteredTransactions (lines 54-86)
SortedAndFiltered(txs, showAll, field, order, nw) ==
    LET r == IF ~showAll THEN SelectSeq(txs, LAMBDA t : InCurrentMonth(t, nw))
             ELSE txs
    IN  StableSort(r, [j \in DOMAIN r |-> [i \in DOMAIN r |->
                          RunwaySortCompare(r[j], r[i], field, order)]])

sortedAndFilteredTransactions ==
    SortedAndFiltered(transactions, showAllMonths, sortField, sortOrder, now)

\* Number(insights.runway): the number itself, and NaN for the string '∞'
NumberOfRunway(rw) == IF rw.sentinel THEN NaN ELSE Num(rw.days)

\* Math.min(a, b)
MathMin(a, b) ==
    IF a = NaN \/ b = NaN THEN NaN ELSE IF Gt(a, b) THEN b ELSE a

\* the Wallet Runway card (lines 171-186): the value shown before "Days" and
\* the width of the progress bar in percent
RunwayCard(ins) ==
    [value |-> ins.runway,
     width |-> MathMin(Num(100),
                       Mul(Div(NumberOfRunway(ins.runway), Num(30)), Num(100)))]

runwayCard == IF runwayInsights = Null THEN Null ELSE RunwayCard(runwayInsights)

-----------------------------------------------------------------------------
(* Home page: src/app/page.tsx *)

\* const balanceLiquid = totalIncome - totalExpense - totalSaved
BalanceLiquid(txs) ==
    SumAmount(txs, "income") - SumAmount(txs, "expense") - SumAmount(txs, "saved")

balanceLiquid == BalanceLiquid(transactions)

\* const currentMonthKey = getMonthYear(now.toISOString().split('T')[0])
currentMonthKey(nw, zone) == getMonthYear(toISODate(nw, zone))

\* const monthlyFlow = transactions.filter(...)
monthlyFlow(txs, nw) == SelectSeq(txs, LAMBDA t : InCurrentMonth(t, nw))

monthlyIncome(txs, nw) == SumAmount(monthlyFlow(txs, nw), "income")

monthlyExpense(txs, nw) ==
    SumAmount(monthlyFlow(txs, nw), "expense") + SumAmount(monthlyFlow(txs, nw), "saved")

\* a saved amount left out of the group total
GroupDeltaSavedIgnored(t) ==
    IF t.type = "income" THEN t.amount
    ELSE IF t.type = "expense" THEN -t.amount ELSE 0

\* groups[monthYear].total += (t.type === 'income' ? t.amount : -t.amount)
GroupDelta(t) == IF t.type = "income" THEN t.amount ELSE -t.amount

\* the same with the transaction put at the front of its group
AddToGroupFront(groups, t) ==
    LET monthYear == getMonthYear(t.date)
        g1 == IF \E i \in DOMAIN groups : groups[i].key = monthYear
              THEN groups
              ELSE Append(groups, [key |-> monthYear, transactions |-> <<>>, total |-> 0])
    IN  [i \in DOMAIN g1 |->
            IF g1[i].key = monthYear
            THEN [key |-> monthYear,
                  transactions |-> <<t>> \o g1[i].transactions,
                  total |-> g1[i].total + GroupDelta(t)]
            ELSE g1[i]]

\* one iteration of transactions.forEach (lines 159-167); groups is the
\* object's entries in insertion order
AddToGroup(groups, t) ==
    LET monthYear == getMonthYear(t.date)
        g1 == IF \E i \in DOMAIN groups : groups[i].key = monthYear
              THEN groups
              ELSE Append(groups, [key |-> monthYear, transactions |-> <<>>, total |-> 0])
    IN  [i \in DOMAIN g1 |->
            IF g1[i].key = monthYear
            THEN [key |-> monthYear,
                  transactions |-> Append(g1[i].transactions, t),
                  total |-> g1[i].total + GroupDelta(t)]
            ELSE g1[i]]

RECURSIVE BuildGroups(_, _)
BuildGroups(groups, txs) ==
    IF txs = <<>> THEN groups
    ELSE BuildGroups(AddToGroup(groups, Head(txs)), Tail(txs))

\* the comparator with its operands swapped: oldest month first
GroupCompareAscending(a, b) ==
    getTime(a.transactions[1].date) - getTime(b.transactions[1].date)

\* the comparator of Object.entries(groups).sort (lines 169-173)
GroupCompare(a, b) ==
    getTime(b.transactions[1].date) - getTime(a.transactions[1].date)

\* the useMemo body of groupedTransactions (lines 156-181)
GroupedTransactions(txs, showAll, nw, zone) ==
    LET groups == BuildGroups(<<>>, txs)
        entries == StableSort(groups, [j \in DOMAIN groups |-> [i \in DOMAIN groups |->
                                  GroupCompare(groups[j], groups[i])]])
    IN  IF ~showAll
        THEN SelectSeq(entries, LAMBDA e : e.key = currentMonthKey(nw, zone))
        ELSE entries

groupedTransactions == GroupedTransactions(transactions, showAllMonths, now, tz)

-----------------------------------------------------------------------------
(* The environment *)

TimeZones == {0, 7}

StartOfClock == [date |-> <<2024, 2, 28>>, hour |-> 3]

\* the clock advances by a day
Tick ==
    /\ ticks < MaxTicks
    /\ ticks' = ticks + 1
    /\ now' = [date |-> setDate(now.date, getDate(now.date) + 1), hour |-> now.hour]
    /\ UNCHANGED <<transactions, loading, error, showAllMonths, tz>>
    /\ UNCHANGED filterVars
    /\ UNCHANGED <<domVars, storeVars, homeVars, serverVars>>

\* fetchTransactions, the fetch resolving with an OK response
FetchOkFrom(responses) ==
    /\ loading
    /\ \E data \in responses : transactions' = data
    /\ loading' = FALSE
    /\ UNCHANGED <<error, showAllMonths, now, tz, ticks>>
    /\ UNCHANGED filterVars
    /\ UNCHANGED <<domVars, storeVars, homeVars, serverVars>>

FetchOk == FetchOkFrom(Responses)

\* fetchTransactions, the fetch rejecting or resolving with a non-OK response
FetchFail ==
    /\ loading
    /\ error' \in {Message("Failed to load transactions"), Message("Something went wrong")}
    /\ loading' = FALSE
    /\ UNCHANGED <<transactions, showAllMonths, now, tz, ticks>>
    /\ UNCHANGED filterVars
    /\ UNCHANGED <<domVars, storeVars, homeVars, serverVars>>

-----------------------------------------------------------------------------
(* Data Tools page: the filter controls *)

SearchQueries == {<<>>, <<"L", "u", "n">>}

StartDates == {<<>>, <<2024, 2, 29>>}

EndDates == {<<>>, <<2024, 3, 1>>}

MinAmounts == {<<>>, <<"5", "0">>}

MaxAmounts == {<<>>, <<"4", "0", "0">>}

TypeFilters == {"all", "income", "expense", "saved"}

SetSearchQuery ==
    /\ \E q \in SearchQueries : searchQuery' = q
    /\ UNCHANGED <<transactions, loading, error, sortField, sortOrder, showAllMonths,
                   startDate, endDate, minAmount, maxAmount, typeFilter, now, tz, ticks>>
    /\ UNCHANGED <<domVars, storeVars, homeVars, serverVars>>

SetTypeFilter ==
    /\ \E v \in TypeFilters : typeFilter' = v
    /\ UNCHANGED <<transactions, loading, error, sortField, sortOrder, showAllMonths,
                   searchQuery, startDate, endDate, minAmount, maxAmount, now, tz, ticks>>
    /\ UNCHANGED <<domVars, storeVars, homeVars, serverVars>>

SetStartDate ==
    /\ \E v \in StartDates : startDate' = v
    /\ UNCHANGED <<transactions, loading, error, sortField, sortOrder, showAllMonths,
                   searchQuery, endDate, minAmount, maxAmount, typeFilter, now, tz, ticks>>
    /\ UNCHANGED <<domVars, storeVars, homeVars, serverVars>>

SetEndDate ==
    /\ \E v \in EndDates : endDate' = v
    /\ UNCHANGED <<transactions, loading, error, sortField, sortOrder, showAllMonths,
                   searchQuery, startDate, minAmount, maxAmount, typeFilter, now, tz, ticks>>
    /\ UNCHANGED <<domVars, storeVars, homeVars, serverVars>>

\* the value an <input type="text"> would report: the text itself
TextInputValue(text) == text

\* <input type="number">: e.target.value is the text when the text is a valid
\* floating-point number and the empty string otherwise (of the number
\* syntax, the sign and the integer digits are modelled)
NumberInputValue(text) ==
    LET body == IF text # <<>> /\ Head(text) = "-" THEN Tail(text) ELSE text
    IN  IF body # <<>> /\ \A i \in DOMAIN body : IsDigit(body[i])
        THEN text ELSE <<>>

\* typing into the "Min" input: onChange={(e) => setMinAmount(e.target.value)}
TypeMinAmount(texts) ==
    /\ \E text \in texts :
          /\ minAmountInput' = text
          /\ minAmount' = NumberInputValue(text)
    /\ UNCHANGED <<transactions, loading, error, sortField, sortOrder, showAllMonths,
                   searchQuery, startDate, endDate, maxAmount, typeFilter, now, tz, ticks>>
    /\ UNCHANGED <<maxAmountInput, download, storeVars, homeVars, serverVars>>

\* typing into the "Max" input: onChange={(e) => setMaxAmount(e.target.value)}
TypeMaxAmount(texts) ==
    /\ \E text \in texts :
          /\ maxAmountInput' = text
          /\ maxAmount' = NumberInputValue(text)
    /\ UNCHANGED <<transactions, loading, error, sortField, sortOrder, showAllMonths,
                   searchQuery, startDate, endDate, minAmount, typeFilter, now, tz, ticks>>
    /\ UNCHANGED <<minAmountInput, download, storeVars, homeVars, serverVars>>

SetMinAmount == TypeMinAmount(MinAmounts)

SetMaxAmount == TypeMaxAmount(MaxAmounts)

\* the "Active Month" / "All History" buttons
SetShowAllMonths ==
    /\ \E b \in BOOLEAN : showAllMonths' = b
    /\ UNCHANGED <<transactions, loading, error, now, tz, ticks>>
    /\ UNCHANGED filterVars
    /\ UNCHANGED <<domVars, storeVars, homeVars, serverVars>>

resetFilters ==
    /\ searchQuery' = <<>>
    /\ startDate' = <<>>
    /\ endDate' = <<>>
    /\ minAmount' = <<>>
    /\ maxAmount' = <<>>
    /\ typeFilter' = "all"
    \* a controlled input is rewritten when its value changes; a text that
    \* was not a number already had the value "" and stays in the box
    /\ minAmountInput' = (IF minAmount = <<>> THEN minAmountInput ELSE <<>>)
    /\ maxAmountInput' = (IF maxAmount = <<>> THEN maxAmountInput ELSE <<>>)
    /\ UNCHANGED <<transactions, loading, error, sortField, sortOrder, showAllMonths,
                   now, tz, ticks>>
    /\ UNCHANGED <<download, storeVars, homeVars, serverVars>>

Init ==
    /\ transactions = <<>>
    /\ loading = TRUE
    /\ error = Null
    /\ sortField = "date"
    /\ sortOrder = "desc"
    /\ showAllMonths = FALSE
    /\ searchQuery = <<>>
    /\ startDate = <<>>
    /\ endDate = <<>>
    /\ minAmount = <<>>
    /\ maxAmount = <<>>
    /\ typeFilter = "all"
    /\ now = StartOfClock
    /\ tz \in TimeZones
    /\ ticks = 0
    /\ minAmountInput = <<>>
    /\ maxAmountInput = <<>>
    /\ download = <<>>
    /\ rows = <<>>
    /\ lastInsertRowid = 0
    /\ response = Null
    /\ created_at = <<>>
    /\ dbClock = 0
    /\ requests = <<>>
    /\ submitting = FALSE
    /\ initialized = FALSE
    /\ tableExists = FALSE
    /\ handlers = <<>>

Next ==
    \/ FetchOk
    \/ FetchFail
    \/ SetSearchQuery
    \/ SetTypeFilter
    \/ SetStartDate
    \/ SetEndDate
    \/ SetMinAmount
    \/ SetMaxAmount
    \/ SetShowAllMonths
    \/ resetFilters
    \/ Tick

\* the Data Tools page on a host whose time zone is UTC
InitUTC == Init /\ tz = 0

Spec == InitUTC /\ [][Next]_vars

\* the Data Tools page on a host of any time zone
NextZone ==
    \/ FetchOk
    \/ FetchFail
    \/ SetSearchQuery
    \/ SetTypeFilter
    \/ SetShowAllMonths
    \/ Tick

SpecZone == Init /\ [][NextZone]_vars

-----------------------------------------------------------------------------
(* Home page: the month toggle *)

\* setShowAllMonths(!showAllMonths)
ToggleShowAllMonths ==
    /\ showAllMonths' = ~showAllMonths
    /\ UNCHANGED <<transactions, loading, error, now, tz, ticks>>
    /\ UNCHANGED filterVars
    /\ UNCHANGED <<domVars, storeVars, homeVars, serverVars>>

NextHome ==
    \/ FetchOk
    \/ FetchFail
    \/ ToggleShowAllMonths
    \/ Tick

SpecHome == Init /\ [][NextHome]_vars

-----------------------------------------------------------------------------
(* Either Data Tools variant: the list, the month buttons, the sort headers *)

\* the same with the order kept when another column is clicked
handleSortKeepingOrder ==
    /\ \E field \in SortFields :
          IF sortField = field
          THEN /\ sortOrder' = (IF sortOrder = "asc" THEN "desc" ELSE "asc")
               /\ UNCHANGED sortField
          ELSE /\ sortField' = field
               /\ UNCHANGED sortOrder
    /\ UNCHANGED <<transactions, loading, error, showAllMonths, searchQuery,
                   startDate, endDate, minAmount, maxAmount, typeFilter, now, tz, ticks>>
    /\ UNCHANGED <<domVars, storeVars, homeVars, serverVars>>

\* handleSort(field): the same header flips the order, another header
\* starts at "desc"
handleSort ==
    /\ \E field \in SortFields :
          IF sortField = field
          THEN /\ sortOrder' = (IF sortOrder = "asc" THEN "desc" ELSE "asc")
               /\ UNCHANGED sortField
          ELSE /\ sortField' = field
               /\ sortOrder' = "desc"
    /\ UNCHANGED <<transactions, loading, error, showAllMonths, searchQuery,
                   startDate, endDate, minAmount, maxAmount, typeFilter, now, tz, ticks>>
    /\ UNCHANGED <<domVars, storeVars, homeVars, serverVars>>

\* Rows in the order GET returns them, with equal dates, equal amounts and
\* equal types among them.
SortPool == <<
    Tx(39, <<2024, 2, 28>>, 50, "expense", <<"T", "a", "x", "i">>, <<>>),
    Tx(38, <<2024, 2, 28>>, 50, "saved", <<"P", "o", "t">>, <<>>),
    Tx(37, <<2024, 2, 27>>, 50, "income", <<"G", "i", "f", "t">>, <<>>),
    Tx(36, <<2024, 2, 27>>, 20, "expense", <<"T", "e", "a">>, <<>>),
    Tx(35, <<2024, 1, 31>>, 80, "income", <<"R", "e", "f", "u", "n", "d">>, <<>>),
    Tx(34, <<2024, 1, 31>>, 80, "expense", <<"S", "h", "o", "e", "s">>, <<>>) >>

SortResponses ==
    {Pick(SortPool, idx) :
        idx \in {x \in SUBSET DOMAIN SortPool : Cardinality(x) <= MaxTx}}

FetchSortable == FetchOkFrom(SortResponses)

NextSort ==
    \/ FetchSortable
    \/ FetchFail
    \/ handleSort
    \/ SetShowAllMonths
    \/ Tick

SpecSort == InitUTC /\ [][NextSort]_vars

-----------------------------------------------------------------------------
(* Data Tools page: anything typed into the amount inputs *)

\* texts typed or pasted into a number input: nothing, a number, letters, a
\* number with an unfinished exponent
TypedAmounts == {<<>>, <<"5", "0">>, <<"a", "b", "c">>, <<"1", "e">>}

EnterMinAmount == TypeMinAmount(TypedAmounts)

EnterMaxAmount == TypeMaxAmount(TypedAmounts)

NextInput ==
    \/ FetchOk
    \/ FetchFail
    \/ EnterMinAmount
    \/ EnterMaxAmount
    \/ SetShowAllMonths
    \/ resetFilters

SpecInput == InitUTC /\ [][NextInput]_vars

-----------------------------------------------------------------------------
(* Data Tools page: Export CSV (handleExport, lines 195-217) *)

\* String(n) for a non-negative integer
RECURSIVE NumberToString(_)
NumberToString(n) ==
    IF n < 10 THEN <<Digits[n + 1]>>
    ELSE NumberToString(n \div 10) \o <<Digits[(n % 10) + 1]>>

\* the characters of a date string "YYYY-MM-DD"
DateToString(d) ==
    LET two(k) == <<Digits[(k \div 10) + 1], Digits[(k % 10) + 1]>>
    IN  IF d = <<>> THEN <<>>
        ELSE NumberToString(d[1]) \o <<"-">> \o two(d[2]) \o <<"-">> \o two(d[3])

\* the characters of the three type names
TypeToString ==
    [income |-> <<"i", "n", "c", "o", "m", "e">>,
     expense |-> <<"e", "x", "p", "e", "n", "s", "e">>,
     saved |-> <<"s", "a", "v", "e", "d">>]

\* s.replace('"', '""'): the first quote only
RECURSIVE ReplaceFirstQuote(_)
ReplaceFirstQuote(s) ==
    IF s = <<>> THEN <<>>
    ELSE IF Head(s) = "\"" THEN <<"\"", "\"">> \o Tail(s)
    ELSE <<Head(s)>> \o ReplaceFirstQuote(Tail(s))

\* s.replace(/"/g, '""')
RECURSIVE ReplaceQuotes(_)
ReplaceQuotes(s) ==
    IF s = <<>> THEN <<>>
    ELSE (IF Head(s) = "\"" THEN <<"\"", "\"">> ELSE <<Head(s)>>)
         \o ReplaceQuotes(Tail(s))

\* parts.join(sep)
RECURSIVE Join(_, _)
Join(parts, sep) ==
    IF parts = <<>> THEN <<>>
    ELSE IF Len(parts) = 1 THEN parts[1]
    ELSE parts[1] \o sep \o Join(Tail(parts), sep)

\* const headers = ["ID", "Date", "Amount", "Type", "Reason", "Description"]
headers ==
    << <<"I", "D">>, <<"D", "a", "t", "e">>, <<"A", "m", "o", "u", "n", "t">>,
       <<"T", "y", "p", "e">>, <<"R", "e", "a", "s", "o", "n">>,
       <<"D", "e", "s", "c", "r", "i", "p", "t", "i", "o", "n">> >>

\* one element of filteredTransactions.map(...)
CsvLine(t) ==
    Join(<< NumberToString(t.id),
            DateToString(t.date),
            NumberToString(t.amount),
            TypeToString[t.type],
            <<"\"">> \o ReplaceQuotes(t.reason) \o <<"\"">>,
            <<"\"">> \o ReplaceQuotes(t.description) \o <<"\"">> >>, <<",">>)

\* const csvContent = [headers.join(","), ...lines].join("\n")
csvContent(view) ==
    Join(<<Join(headers, <<",">>)>> \o [i \in DOMAIN view |-> CsvLine(view[i])],
         <<"\n">>)

\* the click on "Export CSV": the browser saves the blob
handleExport ==
    /\ download' = csvContent(filteredTransactions)
    /\ UNCHANGED <<transactions, loading, error, showAllMonths, now, tz, ticks>>
    /\ UNCHANGED filterVars
    /\ UNCHANGED <<minAmountInput, maxAmountInput, storeVars, homeVars, serverVars>>

\* Rows in the order GET returns them; the reasons are what a text input
\* accepts and the descriptions what a textarea accepts.
ExportPool == <<
    Tx(49, <<2024, 2, 28>>, 120, "expense",
       <<"L", "u", "n", "c", "h", ",", " ", "\"", "f", "a", "n", "c", "y", "\"">>,
       <<>>),
    Tx(48, <<2024, 2, 27>>, 50, "expense",
       <<"T", "e", "a">>, <<"a", " ", "\"", "b", "\"", ",", "c">>),
    Tx(47, <<2024, 2, 27>>, 900, "income",
       <<"P", "a", "y">>, <<"J", "a", "n", "\n", "F", "e", "b">>),
    Tx(46, <<2024, 2, 5>>, 7, "saved",
       <<"\"", "\"">>, <<",">>),
    Tx(45, <<2024, 1, 5>>, 1000, "income",
       <<"x", "\"">>, <<"\"", ",", "\"">>) >>

ExportResponses ==
    {Pick(ExportPool, idx) :
        idx \in {x \in SUBSET DOMAIN ExportPool : Cardinality(x) <= MaxTx}}

FetchExportable == FetchOkFrom(ExportResponses)

NextExport ==
    \/ FetchExportable
    \/ FetchFail
    \/ handleSort
    \/ SetShowAllMonths
    \/ handleExport

SpecExport == InitUTC /\ [][NextExport]_vars

-----------------------------------------------------------------------------
(* Data Tools page over a list of many expense reasons *)

\* Rows in the order GET returns them; the reasons are what the "Reason"
\* text input of the home form accepts.
ReasonPool == <<
    Tx(29, <<2024, 2, 28>>, 30, "expense",
       <<"C", "o", "f", "f", "e", "e", " ", "b", "e", "a", "n", "s">>, <<>>),
    Tx(28, <<2024, 2, 28>>, 30, "expense",
       <<"7", " ", "e", "l", "e", "v", "e", "n">>, <<>>),
    Tx(27, <<2024, 2, 27>>, 50, "expense", <<"R", "e", "n", "t">>, <<>>),
    Tx(26, <<2024, 2, 27>>, 20, "expense", <<"c", "o", "f", "f", "e", "e">>, <<>>),
    Tx(25, <<2024, 2, 26>>, 30, "expense",
       <<"T", "a", "x", "i", " ", "h", "o", "m", "e">>, <<>>),
    Tx(24, <<2024, 2, 26>>, 90, "income",
       <<"C", "o", "f", "f", "e", "e", " ", "r", "e", "f", "u", "n", "d">>, <<>>),
    Tx(23, <<2024, 2, 25>>, 40, "expense",
       <<" ", "S", "n", "a", "c", "k", " ", "b", "a", "r">>, <<>>),
    Tx(22, <<2024, 2, 24>>, 30, "expense", <<"G", "y", "m">>, <<>>),
    Tx(21, <<2024, 1, 31>>, 30, "expense", <<"B", "o", "o", "k", "s">>, <<>>) >>

MaxReasons == 6

ReasonResponses ==
    {Pick(ReasonPool, idx) :
        idx \in {x \in SUBSET DOMAIN ReasonPool : Cardinality(x) <= MaxReasons}}

FetchReasons == FetchOkFrom(ReasonResponses)

NextReasons ==
    \/ FetchReasons
    \/ FetchFail
    \/ SetTypeFilter
    \/ SetShowAllMonths

SpecReasons == InitUTC /\ [][NextReasons]_vars

-----------------------------------------------------------------------------
(* The API route: src/app/api/transactions/route.ts *)

MaxRows == 2

\* the keys a request body is read for
BodyFields == {"date", "amount", "type", "reason", "description"}

\* JSON bodies: every key present, or one key absent; amounts are the text
\* of the form's amount field, types the three of the type toggle, one
\* unknown type, and the empty string
FullBodies ==
    {[date |-> d, amount |-> a, type |-> t, reason |-> r, description |-> <<"x">>] :
        d \in {<<2024, 2, 28>>},
        a \in {<<"2", "0", "0">>, <<"7", "5">>, <<"0">>, <<"a", "b", "c">>, <<>>},
        t \in {"income", "expense", "saved", "bonus", ""},
        r \in {<<"T", "e", "a">>, <<>>}}

Bodies ==
    {[k \in has |-> full[k]] :
        full \in FullBodies,
        has \in {BodyFields} \cup {BodyFields \ {k} : k \in BodyFields}}

\* await ensureInit() of a handler that runs alone, the database reachable:
\* the table exists and the flag is set when the handler's statement runs
Initialised ==
    /\ initialized' = TRUE
    /\ tableExists' = TRUE
    /\ UNCHANGED handlers

\* the key is absent (the empty string taken for a value)
IsAbsent(body, k) == k \notin DOMAIN body

\* !body[k]: the key is absent or its value is the empty string
IsFalsy(body, k) ==
    \/ k \notin DOMAIN body
    \/ body[k] = (IF k = "type" THEN "" ELSE <<>>)

\* the request passes the three checks of POST (lines 43-63)
Accepts(body) ==
    /\ ~(IsFalsy(body, "date") \/ "amount" \notin DOMAIN body
         \/ IsFalsy(body, "type") \/ IsFalsy(body, "reason"))
    /\ ~(parseFloat(body.amount) = NaN \/ ~Gt(parseFloat(body.amount), Num(0)))
    /\ body.type \in {"income", "expense"}

\* POST /api/transactions with one body
PostWith(body) ==
    /\ IF IsFalsy(body, "date") \/ "amount" \notin DOMAIN body
          \/ IsFalsy(body, "type") \/ IsFalsy(body, "reason")
       THEN /\ response' = [status |-> 400,
                            error |-> "Missing required fields: date, amount, type, reason"]
            /\ UNCHANGED <<rows, lastInsertRowid, created_at, dbClock>>
       ELSE IF parseFloat(body.amount) = NaN \/ ~Gt(parseFloat(body.amount), Num(0))
       THEN /\ response' = [status |-> 400, error |-> "Amount must be a positive number"]
            /\ UNCHANGED <<rows, lastInsertRowid, created_at, dbClock>>
       ELSE IF body.type \notin {"income", "expense"}
       THEN /\ response' = [status |-> 400, error |-> "Type must be 'income' or 'expense'"]
            /\ UNCHANGED <<rows, lastInsertRowid, created_at, dbClock>>
       ELSE /\ lastInsertRowid' = lastInsertRowid + 1
            /\ rows' = Append(rows,
                   Tx(lastInsertRowid + 1, body.date, parseFloat(body.amount).n,
                      body.type, body.reason,
                      IF "description" \in DOMAIN body THEN body.description ELSE <<>>))
            /\ \E at \in {dbClock, dbClock + 1} :
                  \* created_at TEXT DEFAULT (datetime('now')): the second of
                  \* the insert, the one of the insert before it or a later one
                  /\ dbClock' = at
                  /\ created_at' = [i \in DOMAIN created_at \cup {lastInsertRowid + 1} |->
                                      IF i \in DOMAIN created_at THEN created_at[i] ELSE at]
            /\ response' = [status |-> 201, id |-> lastInsertRowid + 1,
                            message |-> "Transaction added"]
    /\ UNCHANGED <<transactions, loading, error, showAllMonths, now, tz, ticks>>
    /\ UNCHANGED filterVars
    /\ UNCHANGED domVars

POST ==
    \E body \in Bodies :
        /\ Accepts(body) => lastInsertRowid < MaxRows
        /\ PostWith(body)
        /\ Initialised
        /\ UNCHANGED homeVars

\* parseInt(s) for the id texts used here: the leading integer, NaN when
\* the text does not start with one
parseInt(s) ==
    IF s # <<>> /\ IsDigit(Head(s)) THEN Num(DigitsValue(s, 0))
    ELSE IF Len(s) > 1 /\ Head(s) = "-" /\ IsDigit(s[2])
         THEN Num(-DigitsValue(Tail(s), 0))
    ELSE NaN

\* the query strings of a DELETE request: ?id=<text>, or no id parameter
IdTexts == {<<"1">>, <<"2">>, <<"2", "x">>, <<"9">>, <<"a", "b", "c">>, <<>>}

Queries == {[k \in has |-> text] : text \in IdTexts, has \in {{"id"}, {}}}

\* the table without the rows WHERE id <= n
DeleteUpTo(table, n) == SelectSeq(table, LAMBDA t : t.id > n)

\* the table without the rows WHERE id = n
DeleteWhere(table, n) == SelectSeq(table, LAMBDA t : t.id # n)

\* DELETE /api/transactions with one query string
DeleteWith(query) ==
    /\ IF "id" \notin DOMAIN query \/ query.id = <<>>
       THEN /\ response' = [status |-> 400, error |-> "Transaction ID is required"]
            /\ UNCHANGED <<rows, created_at>>
       ELSE IF parseInt(query.id) = NaN
       THEN \* NaN is no id of the table: the statement matches no row, or
            \* the client refuses the argument and the handler answers 500
            /\ response' \in {[status |-> 200, message |-> "Transaction deleted"],
                              [status |-> 500, error |-> "Failed to delete transaction"]}
            /\ UNCHANGED <<rows, created_at>>
       ELSE /\ rows' = DeleteWhere(rows, parseInt(query.id).n)
            /\ created_at' = [i \in {rows'[k].id : k \in DOMAIN rows'} |-> created_at[i]]
            /\ response' = [status |-> 200, message |-> "Transaction deleted"]
    /\ UNCHANGED <<lastInsertRowid, dbClock>>
    /\ UNCHANGED <<transactions, loading, error, showAllMonths, now, tz, ticks>>
    /\ UNCHANGED filterVars
    /\ UNCHANGED domVars

DELETE ==
    /\ \E query \in Queries : DeleteWith(query)
    /\ Initialised
    /\ UNCHANGED homeVars

\* a row as GET maps it: the six columns and created_at
Record(t, at) ==
    [id |-> t.id, date |-> t.date, amount |-> t.amount, type |-> t.type,
     reason |-> t.reason, description |-> t.description, created_at |-> at]

\* ORDER BY date DESC alone
OrderedByDate(a, b) == DateStrLE(b.date, a.date)

\* ORDER BY date DESC, created_at DESC: row a may come before row b
OrderedBefore(a, b) ==
    \/ a.date # b.date /\ DateStrLE(b.date, a.date)
    \/ a.date = b.date /\ a.created_at >= b.created_at

\* the result sets the SELECT can return: every row once, in an order the
\* ORDER BY clause allows (rows equal in both columns come in any order)
SelectOrdered(table, stamps) ==
    LET n == Len(table)
        perms == {p \in [1..n -> 1..n] : {p[i] : i \in 1..n} = 1..n}
        rec == [k \in 1..n |-> Record(table[k], stamps[table[k].id])]
    IN  {[k \in 1..n |-> rec[p[k]]] : p \in {q \in perms :
            \A i, j \in 1..n : i < j => OrderedBefore(rec[q[i]], rec[q[j]])}}

\* GET /api/transactions
Select ==
    /\ \E result \in SelectOrdered(rows, created_at) :
          response' = [status |-> 200, body |-> result]
    /\ UNCHANGED <<rows, lastInsertRowid, created_at, dbClock>>
    /\ UNCHANGED <<transactions, loading, error, showAllMonths, now, tz, ticks>>
    /\ UNCHANGED filterVars
    /\ UNCHANGED domVars

GET ==
    /\ Select
    /\ Initialised
    /\ UNCHANGED homeVars

NextStore == POST

SpecStore == InitUTC /\ [][NextStore]_vars

\* the bodies of the create requests served between lists and deletes: a
\* well-formed expense on each of three dates, and the same request with a
\* zero amount, a refused type, an unknown type, an empty reason and no reason
ListedBodies ==
    LET body(d, a, t, r) ==
            [date |-> d, amount |-> a, type |-> t, reason |-> r, description |-> <<>>]
        tea == <<"T", "e", "a">>
        day == <<2024, 2, 28>>
    IN  {body(d, <<"7", "5">>, "expense", tea) :
            d \in {<<2024, 2, 28>>, <<2024, 3, 1>>, <<2024, 3, 2>>}}
        \cup {body(day, <<"0">>, "expense", tea),
              body(day, <<"7", "5">>, "saved", tea),
              body(day, <<"7", "5">>, "bonus", tea),
              body(day, <<"7", "5">>, "expense", <<>>),
              [date |-> day, amount |-> <<"7", "5">>, type |-> "expense",
               description |-> <<>>]}

MaxCreates == 3

Create ==
    \E body \in ListedBodies :
        /\ Accepts(body) => lastInsertRowid < MaxCreates
        /\ PostWith(body)
        /\ Initialised
        /\ UNCHANGED homeVars

NextTable ==
    \/ Create
    \/ DELETE
    \/ GET

SpecTable == InitUTC /\ [][NextTable]_vars

-----------------------------------------------------------------------------
(* Home page and API route together: the requests in flight *)

MaxRequests == 5

\* a request the page has issued and not yet heard of; wait names the
\* function that awaits it: "load" (useEffect), "submit" (handleSubmit),
\* "delete" (handleDelete)
Sent(method, wait, payload) ==
    [method |-> method, wait |-> wait, payload |-> payload, stage |-> "sent"]

\* the request once its route handler has returned
Served(req, res) ==
    [method |-> req.method, wait |-> req.wait, stage |-> "served", response |-> res]

\* the request once its promise has settled in the page
Done(req, ok) ==
    [method |-> req.method, wait |-> req.wait, stage |-> "done", ok |-> ok]

\* the fetch promise rejecting: no response reaches the page
NetworkError == [status |-> 0, error |-> "Failed to fetch"]

\* res.ok
IsOk(res) == res.status \in 200..299

\* useEffect(() => { fetchTransactions(); }, [fetchTransactions]) after the
\* first render
Mount ==
    /\ requests = <<>>
    /\ requests' = <<Sent("GET", "load", <<>>)>>
    /\ UNCHANGED <<transactions, loading, error, submitting, showAllMonths, now, tz, ticks>>
    /\ UNCHANGED filterVars
    /\ UNCHANGED <<domVars, storeVars, serverVars>>

\* what the form holds when SAVE TRANSACTION is pressed
Forms ==
    {[date |-> <<2024, 2, 28>>, amount |-> <<"7", "5">>, type |-> t,
      reason |-> r, description |-> <<>>] :
        t \in {"expense", "saved"}, r \in {<<"T", "e", "a">>, <<>>}}

\* the requests of handleSubmit and handleDelete whose re-fetch may follow
Awaited ==
    {i \in DOMAIN requests : requests[i].method # "GET" /\ requests[i].stage # "done"}

\* the user may start another create or delete within the bound
MayIssue == Len(requests) + Cardinality(Awaited) + 2 <= MaxRequests

\* the submit button is enabled
CanSubmit == ~submitting

\* handleSubmit up to its first await
handleSubmit ==
    /\ requests # <<>>
    /\ MayIssue
    /\ CanSubmit
    /\ \E form \in Forms :
          /\ ~(form.date = <<>> \/ form.amount = <<>> \/ form.reason = <<>>)
          /\ requests' = Append(requests, Sent("POST", "submit", form))
    /\ submitting' = TRUE
    /\ error' = Null
    /\ UNCHANGED <<transactions, loading, showAllMonths, now, tz, ticks>>
    /\ UNCHANGED filterVars
    /\ UNCHANGED <<domVars, storeVars, serverVars>>

\* the ids of the rows that have a delete button: those of the groups shown
Listed ==
    IF loading THEN {}
    ELSE UNION {{groupedTransactions[g].transactions[n].id :
                    n \in DOMAIN groupedTransactions[g].transactions} :
                g \in DOMAIN groupedTransactions}

\* handleDelete(id) up to its first await, the confirm dialog accepted
handleDelete ==
    /\ MayIssue
    /\ \E id \in Listed :
          requests' = Append(requests,
              Sent("DELETE", "delete", [id |-> NumberToString(id)]))
    /\ UNCHANGED <<transactions, loading, error, submitting, showAllMonths, now, tz, ticks>>
    /\ UNCHANGED filterVars
    /\ UNCHANGED <<domVars, storeVars, serverVars>>

\* the route handler of request i runs
Serve(i) ==
    /\ requests[i].stage = "sent"
    /\ CASE requests[i].method = "GET" -> Select
         [] requests[i].method = "POST" -> PostWith(requests[i].payload)
         [] requests[i].method = "DELETE" -> DeleteWith(requests[i].payload)
    /\ requests' = [requests EXCEPT ![i] = Served(@, response')]
    /\ Initialised
    /\ UNCHANGED submitting

\* the route handler of request i fails on the database and answers 500
ServeError(i) ==
    /\ requests[i].stage = "sent"
    /\ response' = [status |-> 500, error |-> "Failed to reach the database"]
    /\ requests' = [requests EXCEPT ![i] = Served(@, response')]
    /\ UNCHANGED <<rows, lastInsertRowid, created_at, dbClock>>
    /\ UNCHANGED <<transactions, loading, error, submitting, showAllMonths, now, tz, ticks>>
    /\ UNCHANGED filterVars
    /\ UNCHANGED <<domVars, serverVars>>

\* submitting after a fetch that handleSubmit awaits, without the finally block
SubmittingKept(wait, busy) == busy

\* submitting after fetchTransactions has returned: the finally block of
\* handleSubmit, when it is handleSubmit that awaits the fetch
SubmittingAfterFetch(wait, busy) == IF wait = "submit" THEN FALSE ELSE busy

\* the list after a fetch that empties it on failure
FetchedOrEmpty(res, txs) == IF IsOk(res) THEN res.body ELSE <<>>

\* the list after fetchTransactions: setTransactions(data) is reached only
\* with an OK response
FetchedList(res, txs) == IF IsOk(res) THEN res.body ELSE txs

\* the rest of fetchTransactions once its fetch has settled with res, and of
\* the handler that awaits it
FetchSettled(i, res) ==
    /\ transactions' = FetchedList(res, transactions)
    /\ IF IsOk(res)
       THEN UNCHANGED error
       ELSE error' = Message(IF res = NetworkError THEN res.error
                             ELSE "Failed to load transactions")
    /\ loading' = FALSE
    /\ submitting' = SubmittingAfterFetch(requests[i].wait, submitting)
    /\ requests' = [requests EXCEPT ![i] = Done(@, IsOk(res))]

\* the rest of handleSubmit once its POST has settled with res
SubmitSettled(i, res) ==
    /\ IF IsOk(res)
       THEN /\ requests' = Append([requests EXCEPT ![i] = Done(@, TRUE)],
                                  Sent("GET", "submit", <<>>))
            /\ UNCHANGED <<error, submitting>>
       ELSE /\ error' = Message(res.error)
            /\ submitting' = FALSE
            /\ requests' = [requests EXCEPT ![i] = Done(@, FALSE)]
    /\ UNCHANGED <<transactions, loading>>

\* the rest of handleDelete once its DELETE has settled with res
DeleteSettled(i, res) ==
    /\ IF IsOk(res)
       THEN /\ requests' = Append([requests EXCEPT ![i] = Done(@, TRUE)],
                                  Sent("GET", "delete", <<>>))
            /\ UNCHANGED error
       ELSE /\ error' = Message(IF res = NetworkError THEN res.error ELSE "Failed to delete")
            /\ requests' = [requests EXCEPT ![i] = Done(@, FALSE)]
    /\ UNCHANGED <<transactions, loading, submitting>>

\* the promise of request i settles with res and the awaiting code runs on
Settled(i, res) ==
    /\ CASE requests[i].method = "GET" -> FetchSettled(i, res)
         [] requests[i].method = "POST" -> SubmitSettled(i, res)
         [] requests[i].method = "DELETE" -> DeleteSettled(i, res)
    /\ UNCHANGED <<showAllMonths, now, tz, ticks>>
    /\ UNCHANGED filterVars
    /\ UNCHANGED <<domVars, storeVars, serverVars>>

\* the response of request i reaches the page
Respond(i) ==
    /\ requests[i].stage = "served"
    /\ Settled(i, requests[i].response)

\* the fetch of request i rejects, before or after the server has run it
Reject(i) ==
    /\ requests[i].stage \in {"sent", "served"}
    /\ Settled(i, NetworkError)

NextPage ==
    \/ Mount
    \/ handleSubmit
    \/ handleDelete
    \/ \E i \in DOMAIN requests : Serve(i)
    \/ \E i \in DOMAIN requests : ServeError(i)
    \/ \E i \in DOMAIN requests : Respond(i)
    \/ \E i \in DOMAIN requests : Reject(i)

SpecPage == InitUTC /\ [][NextPage]_vars

\* the promise of request i settles
Settle(i) == i \in DOMAIN requests /\ (Respond(i) \/ Reject(i))

\* the home page with every effect run and every fetch promise settled in
\* the end, by a response or by a rejection
SpecPageFair ==
    /\ SpecPage
    /\ WF_vars(Mount)
    /\ \A i \in 1..MaxRequests : WF_vars(Settle(i))

-----------------------------------------------------------------------------
(* The route handlers of one server process, running concurrently *)

MaxHandlers == 3

\* the requests the concurrent handlers serve
Arrivals ==
    {[method |-> "GET", payload |-> <<>>],
     [method |-> "POST",
      payload |-> [date |-> <<2024, 2, 28>>, amount |-> <<"7", "5">>, type |-> "expense",
                   reason |-> <<"T", "e", "a">>, description |-> <<>>]],
     [method |-> "DELETE", payload |-> [id |-> <<"1">>]]}

\* a handler is called: it is about to run ensureInit()
Arrive ==
    /\ Len(handlers) < MaxHandlers
    /\ \E a \in Arrivals :
          handlers' = Append(handlers, [method |-> a.method, payload |-> a.payload,
                                        pc |-> "ensureInit", inited |-> FALSE])
    /\ UNCHANGED <<initialized, tableExists>>
    /\ UNCHANGED <<transactions, loading, error, showAllMonths, now, tz, ticks>>
    /\ UNCHANGED filterVars
    /\ UNCHANGED <<domVars, storeVars, homeVars>>

\* the flag once initDb() has been called and not yet returned
FlagSetOnCall == TRUE

\* the flag while initDb() is awaited: initialized = true comes after the await
FlagWhileAwaiting == initialized

\* ensureInit() up to its await: if (!initialized) { await initDb(); ...
ensureInit(h) ==
    /\ handlers[h].pc = "ensureInit"
    /\ IF initialized
       THEN /\ handlers' = [handlers EXCEPT ![h].pc = "statement"]
            /\ UNCHANGED initialized
       ELSE /\ handlers' = [handlers EXCEPT ![h].pc = "initDb"]
            /\ initialized' = FlagWhileAwaiting
    /\ UNCHANGED tableExists
    /\ UNCHANGED <<transactions, loading, error, showAllMonths, now, tz, ticks>>
    /\ UNCHANGED filterVars
    /\ UNCHANGED <<domVars, storeVars, homeVars>>

\* the database runs the CREATE TABLE IF NOT EXISTS of handler h's initDb()
initDb(h) ==
    /\ handlers[h].pc = "initDb"
    /\ tableExists' = TRUE
    /\ handlers' = [handlers EXCEPT ![h].pc = "initDbReturns"]
    /\ UNCHANGED initialized
    /\ UNCHANGED <<transactions, loading, error, showAllMonths, now, tz, ticks>>
    /\ UNCHANGED filterVars
    /\ UNCHANGED <<domVars, storeVars, homeVars>>

\* handler h's await initDb() resolves: initialized = true; }
InitDbReturns(h) ==
    /\ handlers[h].pc = "initDbReturns"
    /\ initialized' = TRUE
    /\ handlers' = [handlers EXCEPT ![h].pc = "statement", ![h].inited = TRUE]
    /\ UNCHANGED tableExists
    /\ UNCHANGED <<transactions, loading, error, showAllMonths, now, tz, ticks>>
    /\ UNCHANGED filterVars
    /\ UNCHANGED <<domVars, storeVars, homeVars>>

\* handler h's await initDb() rejects: the handler's catch answers 500
InitDbFails(h) ==
    /\ handlers[h].pc \in {"initDb", "initDbReturns"}
    /\ handlers' = [handlers EXCEPT ![h].pc = "done"]
    /\ response' = [status |-> 500, error |-> "Failed to reach the database"]
    /\ UNCHANGED <<initialized, tableExists>>
    /\ UNCHANGED <<rows, lastInsertRowid, created_at, dbClock>>
    /\ UNCHANGED <<transactions, loading, error, showAllMonths, now, tz, ticks>>
    /\ UNCHANGED filterVars
    /\ UNCHANGED <<domVars, homeVars>>

\* handler h runs its SELECT, INSERT or DELETE statement and returns; on a
\* database without the table the statement fails and the catch answers 500
Statement(h) ==
    /\ handlers[h].pc = "statement"
    /\ handlers' = [handlers EXCEPT ![h].pc = "done"]
    /\ IF tableExists
       THEN CASE handlers[h].method = "GET" -> Select
              [] handlers[h].method = "POST" -> PostWith(handlers[h].payload)
              [] handlers[h].method = "DELETE" -> DeleteWith(handlers[h].payload)
       ELSE /\ response' = [status |-> 500, error |-> "no such table: transactions"]
            /\ UNCHANGED <<rows, lastInsertRowid, created_at, dbClock>>
            /\ UNCHANGED <<transactions, loading, error, showAllMonths, now, tz, ticks>>
            /\ UNCHANGED filterVars
            /\ UNCHANGED domVars
    /\ UNCHANGED <<initialized, tableExists>>
    /\ UNCHANGED homeVars

NextHandlers ==
    \/ Arrive
    \/ \E h \in DOMAIN handlers : ensureInit(h)
    \/ \E h \in DOMAIN handlers : initDb(h)
    \/ \E h \in DOMAIN handlers : InitDbReturns(h)
    \/ \E h \in DOMAIN handlers : InitDbFails(h)
    \/ \E h \in DOMAIN handlers : Statement(h)

SpecHandlers == InitUTC /\ [][NextHandlers]_vars

TypeOK ==
    /\ \/ transactions \in Responses \cup SortResponses \cup ExportResponses \cup ReasonResponses
       \/ \A i \in DOMAIN transactions : transactions[i].created_at \in 0..dbClock
    /\ submitting \in BOOLEAN
    /\ Len(requests) <= MaxRequests
    /\ initialized \in BOOLEAN
    /\ tableExists \in BOOLEAN
    /\ initialized => tableExists
    /\ Len(handlers) <= MaxHandlers
    /\ \A i \in DOMAIN requests : requests[i].stage \in {"sent", "served", "done"}
    /\ loading \in BOOLEAN
    /\ showAllMonths \in BOOLEAN
    /\ tz \in TimeZones
    /\ ticks \in 0..MaxTicks
    /\ minAmount = NumberInputValue(minAmountInput) \/ minAmount = <<>>
    /\ maxAmount = NumberInputValue(maxAmountInput) \/ maxAmount = <<>>
    /\ Len(rows) <= lastInsertRowid
    /\ lastInsertRowid <= MaxCreates
    /\ \A i \in DOMAIN rows : rows[i].id <= lastInsertRowid /\ rows[i].id \in DOMAIN created_at

-----------------------------------------------------------------------------
(* Properties *)

\* the sum of the amounts of one type, stated over positions
RECURSIVE TotalUpTo(_, _, _)
TotalUpTo(arr, type, k) ==
    IF k = 0 THEN 0
    ELSE TotalUpTo(arr, type, k - 1)
         + (IF arr[k].type = type THEN arr[k].amount ELSE 0)

Total(arr, type) == TotalUpTo(arr, type, Len(arr))

Net(arr) == Total(arr, "income") - Total(arr, "expense") - Total(arr, "saved")

\* the transactions dated in the calendar month of the local clock
ThisMonth(arr) ==
    SelectSeq(arr, LAMBDA t : t.date[1] = now.date[1] /\ t.date[2] = now.date[2])

\* C1: in the Data Tools view liquidBalance is income - expense - saved summed
\* over exactly the filtered transactions, not over the unfiltered list.
C1_LiquidBalanceOverFiltered ==
    LET ins == insights
    IN  ins # Null => ins.liquidBalance = Net(filteredTransactions)

\* a filter hides part of the list and the two balances differ
C1_Witness ==
    /\ insights # Null
    /\ typeFilter # "all"
    /\ Len(filteredTransactions) >= 2
    /\ Len(filteredTransactions) < Len(transactions)
    /\ insights.liquidBalance # Net(transactions)

\* C2: with all months shown, every transaction is in exactly one month
\* group, the group of its own year and month; no group is empty; the group
\* totals add up to balanceLiquid, the net of all transactions.
RECURSIVE SumTotals(_)
SumTotals(groups) ==
    IF groups = <<>> THEN 0 ELSE Head(groups).total + SumTotals(Tail(groups))

Places(groups, t) ==
    {p \in {<<k, j>> : k \in DOMAIN groups, j \in 1..MaxTx + 1} :
        /\ p[2] \in DOMAIN groups[p[1]].transactions
        /\ groups[p[1]].transactions[p[2]] = t}

SameMonth(t, u) == t.date[1] = u.date[1] /\ t.date[2] = u.date[2]

C2_MonthGroupsPartition ==
    showAllMonths =>
        LET g == groupedTransactions
            GroupOf(t) == (CHOOSE p \in Places(g, t) : TRUE)[1]
        IN  /\ \A i \in DOMAIN transactions :
                   Cardinality(Places(g, transactions[i])) = 1
            /\ \A i, j \in DOMAIN transactions :
                   (GroupOf(transactions[i]) = GroupOf(transactions[j]))
                       <=> SameMonth(transactions[i], transactions[j])
            /\ \A k \in DOMAIN g :
                   /\ g[k].transactions # <<>>
                   /\ \A j \in DOMAIN g[k].transactions :
                          \E i \in DOMAIN transactions :
                              transactions[i] = g[k].transactions[j]
            /\ SumTotals(g) = balanceLiquid
            /\ balanceLiquid = Net(transactions)

\* all months shown, March of two different years and a month of two records
C2_Witness ==
    /\ showAllMonths
    /\ Len(groupedTransactions) >= 2
    /\ \E i, j \in DOMAIN transactions :
           /\ transactions[i].date[2] = transactions[j].date[2]
           /\ transactions[i].date[1] # transactions[j].date[1]
    /\ \E k \in DOMAIN groupedTransactions :
           Len(groupedTransactions[k].transactions) >= 2

\* C3: the total of every month group is the sum of its income amounts minus
\* its expense amounts minus its saved amounts.
C3_GroupTotal ==
    \A k \in DOMAIN groupedTransactions :
        groupedTransactions[k].total = Net(groupedTransactions[k].transactions)

\* income 1000, expense 400 and saved 200 in March 2024 give a total of 400
C3_Witness ==
    \E k \in DOMAIN groupedTransactions :
        LET g == groupedTransactions[k]
        IN  /\ g.key = <<"March", 2024>>
            /\ Len(g.transactions) = 3
            /\ Total(g.transactions, "income") = 1000
            /\ Total(g.transactions, "expense") = 400
            /\ Total(g.transactions, "saved") = 200
            /\ g.total = 400

\* C4: with all months shown, the groups come out in strictly descending
\* (year, month) order for every order of the input records, so every
\* permutation of the list yields the same sequence of group keys.
Reorderings(arr) ==
    {[i \in 1..Len(arr) |-> arr[p[i]]] : p \in Permutations(1..Len(arr))}

MonthIndex(group) ==
    group.transactions[1].date[1] * 12 + group.transactions[1].date[2]

Keys(groups) == [k \in DOMAIN groups |-> groups[k].key]

C4_GroupsNewestFirst ==
    showAllMonths =>
        \A arr \in Reorderings(transactions) :
            LET g == GroupedTransactions(arr, showAllMonths, now, tz)
            IN  /\ \A k \in 1..(Len(g) - 1) : MonthIndex(g[k]) > MonthIndex(g[k + 1])
                /\ Keys(g) = Keys(groupedTransactions)

\* three months are shown
C4_Witness ==
    /\ showAllMonths
    /\ Len(groupedTransactions) >= 3

\* C5: savingsRate is never NaN and never negative, and it is exactly 0
\* whenever the income sum it divides by is 0, whatever was saved; in the Data
\* Tools view the divisor is the income of the current month, in the runway
\* view the income of the whole list.
RateInRange(rate, income) ==
    /\ IsFinite(rate)
    /\ rate.n >= 0
    /\ income = 0 => rate = Num(0)

C5_SavingsRateDefined ==
    LET ins == insights
        run == runwayInsights
    IN  /\ ins # Null =>
               RateInRange(ins.savingsRate, Total(ThisMonth(transactions), "income"))
        /\ run # Null =>
               RateInRange(run.savingsRate, Total(transactions, "income"))

\* a month with a saved amount and no income
C5_Witness ==
    /\ insights # Null
    /\ Total(ThisMonth(transactions), "saved") > 0
    /\ Total(ThisMonth(transactions), "income") = 0
    /\ insights.savingsRate = Num(0)

\* rate is saved / income * 100 rounded to the nearest integer, halves up
IsRoundedPercent(rate, saved, income) ==
    /\ rate.d = 1
    /\ 2 * rate.n * income <= 200 * saved + income
    /\ 200 * saved + income < 2 * (rate.n + 1) * income

\* C6: when the income of the current month is positive, savingsRate is
\* round(monthSaved / monthIncome * 100) over the unfiltered transactions of
\* the current calendar month, in both views that show a savings rate.
C6_SavingsRateOfCurrentMonth ==
    LET monthIncome == Total(ThisMonth(transactions), "income")
        monthSaved == Total(ThisMonth(transactions), "saved")
        ins == insights
        run == runwayInsights
    IN  monthIncome > 0 =>
            /\ ins # Null =>
                   IsRoundedPercent(ins.savingsRate, monthSaved, monthIncome)
            /\ run # Null =>
                   IsRoundedPercent(run.savingsRate, monthSaved, monthIncome)

\* the part of C6 that data-tools/page.tsx satisfies
C6_DataToolsView ==
    LET monthIncome == Total(ThisMonth(transactions), "income")
        monthSaved == Total(ThisMonth(transactions), "saved")
        ins == insights
    IN  (monthIncome > 0 /\ ins # Null) =>
            IsRoundedPercent(ins.savingsRate, monthSaved, monthIncome)

\* the expense amounts of the whole list dated exactly the given day
ExpensesOn(date) ==
    Total(SelectSeq(transactions, LAMBDA t : t.date = date), "expense")

\* l holds the 7 consecutive days ending on the day last, oldest first, each
\* with the expenses of that day
IsWeekEnding(l, last) ==
    /\ Len(l) = 7
    /\ \A k \in 1..7 :
           /\ getTime(l[k].date) + (7 - k) = getTime(last)
           /\ l[k].amount = ExpensesOn(l[k].date)

\* C7: last7Days has exactly 7 entries, the 7 consecutive calendar days ending
\* today, oldest first, each with the expenses of that day over the entire
\* unfiltered list, whatever filters are active.
C7_Last7DaysEndToday ==
    LET ins == insights
    IN  ins # Null => IsWeekEnding(ins.last7Days, now.date)

\* what the code computes: the week ends on the UTC day of the clock
C7_Last7DaysEndUtcDay ==
    LET ins == insights
    IN  ins # Null => IsWeekEnding(ins.last7Days, toISODate(now, tz))

\* burn is monthExpense divided by the day-of-month number
IsDailyBurn(burn) ==
    /\ now.date[3] >= 1
    /\ IsFinite(burn)
    /\ burn.n * now.date[3] = burn.d * Total(ThisMonth(transactions), "expense")

\* C8: dailyBurn is the expense sum of the unfiltered current-month
\* transactions divided by the current day-of-month number, which is at least
\* 1, so the quotient is always a finite number.
C8_DailyBurn ==
    LET ins == insights
        run == runwayInsights
    IN  /\ ins # Null => IsDailyBurn(ins.dailyBurn)
        /\ run # Null => IsDailyBurn(run.dailyBurn)

\* the first day of a month with expenses, the type filter hiding them
C8_Witness ==
    /\ insights # Null
    /\ now.date[3] = 1
    /\ typeFilter = "income"
    /\ insights.dailyBurn.n > 0
    /\ runwayInsights.dailyBurn = insights.dailyBurn

\* C9: projectedBalance is monthIncome - dailyBurn * totalDaysInCurrentMonth
\* - monthSaved over the unfiltered current-month transactions.
C9_ProjectedBalance ==
    LET ins == insights
    IN  ins # Null =>
        LET day == now.date[3]
            totalDays == MonthLength(now.date[1], now.date[2])
            monthIncome == Total(ThisMonth(transactions), "income")
            monthExpense == Total(ThisMonth(transactions), "expense")
            monthSaved == Total(ThisMonth(transactions), "saved")
            pb == ins.projectedBalance
        IN  /\ IsFinite(pb)
            /\ pb.n * day = pb.d * (monthIncome * day - monthExpense * totalDays
                                    - monthSaved * day)

\* day 28 of a 29-day February: the projection is not a whole number
C9_Witness ==
    /\ insights # Null
    /\ now.date = <<2024, 2, 28>>
    /\ Total(ThisMonth(transactions), "income") > 0
    /\ insights.projectedBalance.d > 1

\* the four burn-rate figures of the insights computed under filter setting f
BurnFigures(f) == BurnRate(transactions, FilterAndSort(transactions, f, now), now)

\* C10: for the same list and the same time, every filter and sort setting
\* yields the same dailyBurn, projectedBalance, savingsRate and incomeRatio
\* (each setting agrees with the initial setting, hence any two agree).
C10_BurnMathIgnoresFilters ==
    LET initial == BurnFigures(DefaultFilters)
    IN  \A sf \in SortFields : \A so \in {"asc", "desc"} :
            BurnFigures([FilterState EXCEPT !.sortField = sf, !.sortOrder = so])
                = initial

\* the filters hide every expense of the month while the burn rate is positive
C10_Witness ==
    /\ insights # Null
    /\ searchQuery # <<>>
    /\ minAmount # <<>>
    /\ Total(filteredTransactions, "expense") = 0
    /\ insights.dailyBurn.n > 0
    /\ insights.incomeRatio.n > 0

-----------------------------------------------------------------------------
(* Reason analysis *)

Whitespace == {" ", "\t"}

\* the first whitespace-delimited token of a text, <<>> when it has none
RECURSIVE FirstWord(_)
FirstWord(s) ==
    IF s = <<>> THEN <<>>
    ELSE IF Head(s) \in Whitespace THEN FirstWord(Tail(s))
    ELSE LET stops == {i \in DOMAIN s : s[i] \in Whitespace}
         IN  IF stops = {} THEN s
             ELSE SubSeq(s, 1, (CHOOSE i \in stops : \A j \in stops : i <= j) - 1)

Token(t) == toLowerCase(FirstWord(t.reason))

ExpensesOf(arr) == SelectSeq(arr, LAMBDA t : t.type = "expense")

\* the sum of the amounts of arr at the positions of idx up to k
RECURSIVE SumAt(_, _, _)
SumAt(arr, idx, k) ==
    IF k = 0 THEN 0
    ELSE SumAt(arr, idx, k - 1) + (IF k \in idx THEN arr[k].amount ELSE 0)

\* the sum of the expenses of arr whose token is key
TokenSum(arr, key) ==
    SumAt(arr, {i \in DOMAIN arr : arr[i].type = "expense" /\ Token(arr[i]) = key},
          Len(arr))

\* the sum of the expenses of arr that the code files under key
KeySum(arr, key) ==
    SumAt(arr, {i \in DOMAIN arr : arr[i].type = "expense" /\ reasonKey(arr[i]) = key},
          Len(arr))

\* C11: topReasons lists at most 5 (token, sum) pairs, where the tokens are
\* the lower-cased first whitespace-delimited tokens of the reasons of the
\* expenses of the filtered set and each sum is the sum of the amounts of the
\* expenses with that token; the listed sums are in descending order and no
\* unlisted token has a larger sum than a listed one; income and saved records
\* contribute nothing.
C11_TopReasons ==
    LET ins == insights
        cs == filteredTransactions
        tokens == {Token(cs[i]) : i \in {k \in DOMAIN cs : cs[k].type = "expense"}}
    IN  ins # Null =>
          LET top == ins.topReasons
          IN  /\ Len(top) = (IF Cardinality(tokens) < 5 THEN Cardinality(tokens) ELSE 5)
              /\ \A i \in DOMAIN top :
                    /\ top[i].key \in tokens
                    /\ top[i].value = TokenSum(cs, top[i].key)
              /\ \A i, j \in DOMAIN top : i < j =>
                    /\ top[i].key # top[j].key
                    /\ top[i].value >= top[j].value
              /\ \A k \in tokens :
                    (\A i \in DOMAIN top : top[i].key # k) =>
                        \A i \in DOMAIN top : top[i].value >= TokenSum(cs, k)

\* the position in arr of the first expense whose key is key
FirstSeen(arr, key) ==
    CHOOSE i \in DOMAIN arr :
        /\ arr[i].type = "expense" /\ reasonKey(arr[i]) = key
        /\ \A j \in 1..(i - 1) : ~(arr[j].type = "expense" /\ reasonKey(arr[j]) = key)

\* C12: of two keys of topReasons with equal sums the one whose first expense
\* comes earlier in the filtered set is listed first, and a key left out at
\* the cut-off with the sum of a listed key was first seen after it.
C12_TiesInEncounterOrder ==
    LET ins == insights
        cs == filteredTransactions
        keys == {reasonKey(cs[i]) : i \in {k \in DOMAIN cs : cs[k].type = "expense"}}
    IN  ins # Null =>
          LET top == ins.topReasons
          IN  /\ \A i, j \in DOMAIN top :
                    (i < j /\ top[i].value = top[j].value) =>
                        FirstSeen(cs, top[i].key) < FirstSeen(cs, top[j].key)
              /\ \A k \in keys :
                    (\A i \in DOMAIN top : top[i].key # k) =>
                        \A i \in DOMAIN top :
                            top[i].value = KeySum(cs, k) =>
                                FirstSeen(cs, top[i].key) < FirstSeen(cs, k)

-----------------------------------------------------------------------------
(* Runway *)

\* C13: in the runway view runway is floor(liquidBalance / dailyBurn) when
\* dailyBurn is not 0 and the 'unbounded' sentinel exactly when dailyBurn is 0,
\* and the sentinel is never put through numeric arithmetic: every figure the
\* card derives from the runway is a number.
C13_RunwaySentinel ==
    LET ins == runwayInsights
        card == runwayCard
    IN  ins # Null =>
          /\ ins.runway.sentinel <=> ins.dailyBurn = Num(0)
          /\ ~ins.runway.sentinel =>
                /\ ins.runway.days * ins.dailyBurn.n <= ins.liquidBalance * ins.dailyBurn.d
                /\ ins.liquidBalance * ins.dailyBurn.d < (ins.runway.days + 1) * ins.dailyBurn.n
          /\ card.value = ins.runway
          /\ card.width # NaN

\* the runway itself is as C13 says, in every state
RunwayValue ==
    LET ins == runwayInsights
    IN  ins # Null =>
          /\ ins.runway.sentinel <=> ins.dailyBurn = Num(0)
          /\ ~ins.runway.sentinel =>
                /\ ins.runway.days * ins.dailyBurn.n <= ins.liquidBalance * ins.dailyBurn.d
                /\ ins.liquidBalance * ins.dailyBurn.d < (ins.runway.days + 1) * ins.dailyBurn.n

-----------------------------------------------------------------------------
(* The empty list *)

\* C14: with an empty transaction list the insights of both Data Tools
\* variants are the 'no data' value, the filtered views and the month groups
\* are empty, and the home totals (income, expense, saved, balance, monthly
\* income and monthly expense) are all 0.
C14_EmptyList ==
    transactions = <<>> =>
        /\ insights = Null
        /\ runwayInsights = Null
        /\ filteredTransactions = <<>>
        /\ sortedAndFilteredTransactions = <<>>
        /\ groupedTransactions = <<>>
        /\ SumAmount(transactions, "income") = 0
        /\ SumAmount(transactions, "expense") = 0
        /\ SumAmount(transactions, "saved") = 0
        /\ balanceLiquid = 0
        /\ monthlyIncome(transactions, now) = 0
        /\ monthlyExpense(transactions, now) = 0

\* the fetch is over, the list is empty and filters are set
C14_Witness ==
    /\ ~loading
    /\ transactions = <<>>
    /\ typeFilter = "expense"
    /\ showAllMonths
    /\ insights = Null
    /\ groupedTransactions = <<>>

-----------------------------------------------------------------------------
(* The filtered view *)

Range(arr) == {arr[i] : i \in DOMAIN arr}

DateNumber(d) == d[1] * 10000 + d[2] * 100 + d[3]

\* q occurs in text when letter case is ignored
OccursIn(q, text) ==
    \E i \in 0..(Len(text) - Len(q)) :
        \A k \in 1..Len(q) :
            toLowerCase(<<text[i + k]>>) = toLowerCase(<<q[k]>>)

\* t passes every active predicate of the filter bar
Matches(t) ==
    /\ startDate # <<>> => DateNumber(t.date) >= DateNumber(startDate)
    /\ endDate # <<>> => DateNumber(t.date) <= DateNumber(endDate)
    /\ minAmount # <<>> => t.amount >= DigitsValue(minAmount, 0)
    /\ maxAmount # <<>> => t.amount <= DigitsValue(maxAmount, 0)
    /\ typeFilter # "all" => t.type = typeFilter
    /\ searchQuery # <<>> =>
           OccursIn(searchQuery, t.reason) \/ OccursIn(searchQuery, t.description)

\* the month restriction is in force
MonthScoped == ~showAllMonths /\ startDate = <<>> /\ endDate = <<>>

InMonthOfNow(t) == t.date[1] = now.date[1] /\ t.date[2] = now.date[2]

\* C15: the filtered view contains exactly the transactions of the list that
\* satisfy every active predicate of the filter bar at once (date bounds,
\* amount bounds, type, text search), and nothing else.
C15_ExactlyTheMatches ==
    Range(filteredTransactions) = {t \in Range(transactions) : Matches(t)}

\* C15, amended: the filtered view contains, once each, exactly the
\* transactions that satisfy every active predicate of the filter bar and,
\* while the current-month restriction of C16 is in force, are dated in the
\* current month.
C15_MatchesWithinScope ==
    LET view == filteredTransactions
    IN  /\ Range(view) =
              {t \in Range(transactions) : Matches(t) /\ (MonthScoped => InMonthOfNow(t))}
        /\ Cardinality(Range(view)) = Len(view)

\* search, amount and type are active together, with a record on the upper
\* amount bound, and the view is a proper non-empty part of the list
C15_Witness ==
    /\ searchQuery # <<>>
    /\ maxAmount # <<>>
    /\ typeFilter = "expense"
    /\ showAllMonths
    /\ filteredTransactions # <<>>
    /\ Len(filteredTransactions) < Len(transactions)
    /\ \E i \in DOMAIN filteredTransactions :
           filteredTransactions[i].amount = DigitsValue(maxAmount, 0)

\* C16: the current-month restriction applies exactly when "all months" is
\* off and neither date bound is set: then the view is the current-month
\* part of the view with "all months" on, and otherwise it is that view.
C16_MonthScope ==
    LET open == FilterAndSort(transactions,
                              [FilterState EXCEPT !.showAllMonths = TRUE], now)
        view == filteredTransactions
    IN  IF ~showAllMonths /\ startDate = <<>> /\ endDate = <<>>
        THEN view = SelectSeq(open, InMonthOfNow)
        ELSE view = open

\* "all months" is off, a date bound is set, and the view shows a record of
\* another month
C16_Witness ==
    /\ ~showAllMonths
    /\ startDate # <<>> \/ endDate # <<>>
    /\ \E i \in DOMAIN filteredTransactions : ~InMonthOfNow(filteredTransactions[i])

\* "all months" is off, no date bound is set, and a record of another month
\* is hidden
C16_Scoped ==
    /\ ~showAllMonths /\ startDate = <<>> /\ endDate = <<>>
    /\ filteredTransactions # <<>>
    /\ \E i \in DOMAIN transactions :
           ~InMonthOfNow(transactions[i]) /\ Matches(transactions[i])

-----------------------------------------------------------------------------
(* Sorting *)

\* the alphabetical order of the three types
TypeRank(type) ==
    CASE type = "expense" -> 1 [] type = "income" -> 2 [] type = "saved" -> 3

\* the key the Data Tools table sorts by
SortKey(t, field) ==
    CASE field = "date" -> DateNumber(t.date)
      [] field = "amount" -> t.amount
      [] field = "type" -> TypeRank(t.type)

\* the key the runway table sorts by: the amount column shows income as a
\* gain and everything else as a loss, and sorts by that signed value
RunwaySortKey(t, field) ==
    CASE field = "date" -> DateNumber(t.date)
      [] field = "amount" -> (IF t.type = "income" THEN t.amount ELSE -t.amount)
      [] field = "type" -> TypeRank(t.type)

PositionIn(arr, t) == CHOOSE i \in DOMAIN arr : arr[i] = t

\* view is base reordered by key in the given direction, equal keys in the
\* order they have in base
IsStableOrder(view, base, key, order) ==
    /\ Len(view) = Len(base)
    /\ Range(view) = Range(base)
    /\ \A i, j \in DOMAIN view : i < j =>
          /\ order = "asc" => key[view[i]] <= key[view[j]]
          /\ order = "desc" => key[view[i]] >= key[view[j]]
          /\ key[view[i]] = key[view[j]] =>
                PositionIn(base, view[i]) < PositionIn(base, view[j])

NoEqualKeys(base, key) ==
    \A i, j \in DOMAIN base : i # j => key[base[i]] # key[base[j]]

\* the filtered sets before sorting, in the order of the list
FilteredSet ==
    SelectSeq(transactions, LAMBDA t : Matches(t) /\ (MonthScoped => InMonthOfNow(t)))

RunwayFilteredSet ==
    SelectSeq(transactions, LAMBDA t : showAllMonths \/ InMonthOfNow(t))

\* C17: in both Data Tools variants the table is a permutation of the
\* filtered set ordered by the chosen key (date, amount or type) in the chosen
\* direction, with equal keys in their input order in both directions; when
\* no two keys are equal the descending table is the reverse of the ascending
\* one.
C17_StableSort ==
    LET base == FilteredSet
        key == [t \in Range(base) |-> SortKey(t, sortField)]
        rbase == RunwayFilteredSet
        rkey == [t \in Range(rbase) |-> SortKey(t, sortField)]
    IN  /\ IsStableOrder(filteredTransactions, base, key, sortOrder)
        /\ IsStableOrder(sortedAndFilteredTransactions, rbase, rkey, sortOrder)
        /\ NoEqualKeys(base, key) =>
              FilterAndSort(transactions, [FilterState EXCEPT !.sortOrder = "desc"], now)
              = Reverse(FilterAndSort(transactions,
                                      [FilterState EXCEPT !.sortOrder = "asc"], now))
        /\ NoEqualKeys(rbase, rkey) =>
              SortedAndFiltered(transactions, showAllMonths, sortField, "desc", now)
              = Reverse(SortedAndFiltered(transactions, showAllMonths, sortField,
                                          "asc", now))

\* the same statement with the runway table read by its own amount key, the
\* signed amount
SortByEachTablesKey ==
    LET base == FilteredSet
        key == [t \in Range(base) |-> SortKey(t, sortField)]
        rbase == RunwayFilteredSet
        rkey == [t \in Range(rbase) |-> RunwaySortKey(t, sortField)]
    IN  /\ IsStableOrder(filteredTransactions, base, key, sortOrder)
        /\ IsStableOrder(sortedAndFilteredTransactions, rbase, rkey, sortOrder)
        /\ NoEqualKeys(base, key) =>
              FilterAndSort(transactions, [FilterState EXCEPT !.sortOrder = "desc"], now)
              = Reverse(FilterAndSort(transactions,
                                      [FilterState EXCEPT !.sortOrder = "asc"], now))
        /\ NoEqualKeys(rbase, rkey) =>
              SortedAndFiltered(transactions, showAllMonths, sortField, "desc", now)
              = Reverse(SortedAndFiltered(transactions, showAllMonths, sortField,
                                          "asc", now))

-----------------------------------------------------------------------------
(* Amount bounds that are not numbers *)

\* a non-empty text that parseFloat does not read as a number
NonNumeric(text) == text # <<>> /\ parseFloat(text) = NaN

-----------------------------------------------------------------------------
(* Export *)

\* Reading delimited text by the standard rules: fields are separated by
\* commas and records by line breaks, except inside a quoted field; a quoted
\* field runs from its opening quote to its closing quote, a doubled quote
\* inside it standing for one quote.

\* position i of text is outside every quoted field
IsOutsideQuotes(text, i) ==
    Cardinality({j \in 1..(i - 1) : text[j] = "\""}) % 2 = 0

Separators(text, sep) ==
    {i \in DOMAIN text : text[i] = sep /\ IsOutsideQuotes(text, i)}

\* the pieces of text between the positions of cuts
CutAt(text, cuts) ==
    LET nth == [k \in 1..Cardinality(cuts) |->
                   CHOOSE i \in cuts : Cardinality({j \in cuts : j < i}) = k - 1]
    IN  [k \in 1..(Cardinality(cuts) + 1) |->
            SubSeq(text,
                   IF k = 1 THEN 1 ELSE nth[k - 1] + 1,
                   IF k = Cardinality(cuts) + 1 THEN Len(text) ELSE nth[k] - 1)]

RECURSIVE Undouble(_)
Undouble(s) ==
    IF s = <<>> THEN <<>>
    ELSE IF Head(s) = "\"" /\ Len(s) >= 2 /\ s[2] = "\""
         THEN <<"\"">> \o Undouble(SubSeq(s, 3, Len(s)))
    ELSE <<Head(s)>> \o Undouble(Tail(s))

Unquote(field) ==
    IF field # <<>> /\ Head(field) = "\""
    THEN Undouble(SubSeq(field, 2, Len(field) - 1))
    ELSE field

ParseRecord(line) ==
    LET fields == CutAt(line, Separators(line, ","))
    IN  [k \in DOMAIN fields |-> Unquote(fields[k])]

ParseCsv(text) ==
    LET lines == CutAt(text, Separators(text, "\n"))
    IN  [k \in DOMAIN lines |-> ParseRecord(lines[k])]

\* the text of a date field read back as a date
ReadDate(field) ==
    <<DigitsValue(SubSeq(field, 1, 4), 0), DigitsValue(SubSeq(field, 6, 7), 0),
      DigitsValue(SubSeq(field, 9, 10), 0)>>

\* the six fields of a parsed record are those of t
IsRecordOf(fields, t) ==
    /\ Len(fields) = 6
    /\ \A k \in DOMAIN fields[1] : IsDigit(fields[1][k])
    /\ DigitsValue(fields[1], 0) = t.id
    /\ Len(fields[2]) = 10 /\ ReadDate(fields[2]) = t.date
    /\ \A k \in DOMAIN fields[3] : IsDigit(fields[3][k])
    /\ DigitsValue(fields[3], 0) = t.amount
    /\ fields[4] = TypeToString[t.type]
    /\ fields[5] = t.reason
    /\ fields[6] = t.description

\* text is a header record followed by one record per element of view, in
\* the order of view
IsExportOf(text, view) ==
    LET records == ParseCsv(text)
    IN  /\ Len(records) = Len(view) + 1
        /\ records[1] = headers
        /\ \A i \in DOMAIN view : IsRecordOf(records[i + 1], view[i])

\* C19: Export writes, after the header, one record per record of the
\* filtered, sorted view, in the order of the view, with the columns id, date,
\* amount, type, reason, description; read back by the standard rules for
\* delimited text the file gives each record's six fields unchanged.
C19_ExportRoundTrip ==
    [][handleExport => IsExportOf(download', filteredTransactions)]_vars

\* a file of three records has been saved, one of them with the reason
\* Lunch, "fancy" and one with a description of two lines
C19_Witness ==
    /\ download # <<>>
    /\ Len(ParseCsv(download)) = 4
    /\ \E i \in DOMAIN ParseCsv(download) :
           ParseCsv(download)[i][5] = ExportPool[1].reason
    /\ \E i \in DOMAIN ParseCsv(download) :
           ParseCsv(download)[i][6] = ExportPool[3].description

-----------------------------------------------------------------------------
(* Creating a transaction *)

\* the request is one the claim says is stored: the four fields present, a
\* positive amount, one of the three types
IsValidRequest(body) ==
    /\ \A k \in {"date", "amount", "type", "reason"} : ~IsFalsy(body, k)
    /\ \A i \in DOMAIN body.amount : IsDigit(body.amount[i])
    /\ DigitsValue(body.amount, 0) > 0
    /\ body.type \in {"income", "expense", "saved"}

\* the step stores one new record and answers with its id
Stores(body) ==
    /\ Len(rows') = Len(rows) + 1
    /\ SubSeq(rows', 1, Len(rows)) = rows
    /\ rows'[Len(rows')].date = body.date
    /\ rows'[Len(rows')].amount = DigitsValue(body.amount, 0)
    /\ rows'[Len(rows')].type = body.type
    /\ rows'[Len(rows')].reason = body.reason
    /\ \A i \in DOMAIN rows : rows[i].id # rows'[Len(rows')].id
    /\ response'.status = 201
    /\ response'.id = rows'[Len(rows')].id

\* the step answers with an error and leaves the table as it was
Rejects ==
    /\ rows' = rows
    /\ response'.status >= 400
    /\ "error" \in DOMAIN response'

\* C20: POST stores a new record and returns its id exactly when date,
\* amount, type and reason are all present, the amount parses to a number
\* greater than 0, and the type is income, expense or saved; every other
\* request is answered with an error and leaves the store unchanged.
C20_PostStoresValidRequests ==
    [][\A body \in Bodies :
          PostWith(body) => IF IsValidRequest(body) THEN Stores(body) ELSE Rejects]_vars

\* what the route does: the same with the type income or expense only
PostStoresIncomeAndExpense ==
    [][\A body \in Bodies :
          PostWith(body) =>
              IF IsValidRequest(body) /\ body.type # "saved"
              THEN Stores(body) ELSE Rejects]_vars


-----------------------------------------------------------------------------
(* The table behind the API *)

\* C21: after any sequence of create and delete requests through the API,
\* every record of the table has an amount greater than 0, one of the types
\* income, expense and saved, and a reason that is not empty.
C21_StoredRecordsValid ==
    \A i \in DOMAIN rows :
        /\ rows[i].amount > 0
        /\ rows[i].type \in {"income", "expense", "saved"}
        /\ rows[i].reason # <<>>

\* a record is held after creates and a delete have been served
C21_Witness ==
    /\ Len(rows) = 1
    /\ lastInsertRowid = 2
    /\ response = [status |-> 200, message |-> "Transaction deleted"]


\* the id a DELETE request names
NamedId(query) ==
    IF "id" \in DOMAIN query THEN parseInt(query.id) ELSE NaN

\* C22: records are never mutated.  Over any sequence of list, create and
\* delete requests a record keeps its id, date, amount, type, reason and
\* description for as long as it exists; a create adds exactly one record,
\* with an id no record has had before; delete(id) removes at most the
\* record with that id; neither changes any other record, and a list
\* changes none.
C22_RecordsImmutable ==
    [][LET old == Range(rows)
           new == Range(rows')
       IN  /\ \A t \in old : t.id \in 1..lastInsertRowid
           /\ \A i, j \in DOMAIN rows' : rows'[i].id = rows'[j].id => i = j
           /\ \A t \in old, u \in new : t.id = u.id => t = u
           /\ IF response'.status = 201
              THEN /\ old \subseteq new
                   /\ Cardinality(new \ old) = 1
                   /\ \A u \in new \ old : u.id = response'.id /\ u.id > lastInsertRowid
                   /\ lastInsertRowid' >= response'.id
              ELSE /\ new \subseteq old
                   /\ lastInsertRowid' = lastInsertRowid
           /\ \A t \in old \ new :
                 /\ DELETE
                 /\ \A query \in Queries : DeleteWith(query) => Num(t.id) = NamedId(query)
           /\ "body" \in DOMAIN response' => rows' = rows
      ]_vars

\* a record was created, deleted, and a second one created: the new record
\* does not get the id of the deleted one
C22_Witness ==
    /\ Len(rows) = 1
    /\ rows[1].id = 2
    /\ response = [status |-> 201, id |-> 2, message |-> "Transaction added"]


\* the record with its created_at left out
Columns(u) == Tx(u.id, u.date, u.amount, u.type, u.reason, u.description)

\* C24: the list operation (GET) returns all stored records ordered by date
\* descending, records of the same date ordered by createdAt descending;
\* createdAt affects nothing but this tie-break: the records returned are
\* the stored ones whatever their createdAt, and the table is left as it was.
C24_ListOrdered ==
    [][("body" \in DOMAIN response' /\ GET) =>
          LET body == response'.body
          IN  /\ response'.status = 200
              /\ Len(body) = Len(rows)
              /\ {Columns(body[i]) : i \in DOMAIN body} = Range(rows)
              /\ \A i \in DOMAIN body : body[i].created_at = created_at[body[i].id]
              /\ \A i, j \in DOMAIN body :
                    i < j =>
                       /\ DateNumber(body[i].date) >= DateNumber(body[j].date)
                       /\ body[i].date = body[j].date
                             => body[i].created_at >= body[j].created_at
              /\ UNCHANGED <<rows, created_at, lastInsertRowid>>
      ]_vars

\* a list of three records: the newest date first although it was created
\* first, then two of one date, the later created one before the earlier
C24_Witness ==
    /\ "body" \in DOMAIN response
    /\ Len(response.body) = 3
    /\ response.body[1].id = 1
    /\ response.body[2].id = 3
    /\ response.body[3].id = 2
    /\ response.body[2].date = response.body[3].date
    /\ response.body[2].created_at > response.body[3].created_at


-----------------------------------------------------------------------------
(* The home page and its requests *)

\* the fetch of the list that request i carries ends in failure in this step
FetchFails(i) ==
    /\ requests[i].method = "GET"
    /\ requests[i].stage # "done"
    /\ requests'[i].stage = "done"
    /\ ~requests'[i].ok

\* C23: a failed fetch of the transaction list (network error or non-OK
\* response) is surfaced as exactly one user-visible error message and is
\* never retried: the page issues no further request on its own (a request
\* is issued only on mount, by the user's submit or delete, and as the
\* re-fetch after a successful create or delete), and its in-memory
\* transaction list is left exactly as it was before the failed fetch.
C23_FailedFetchSurfaced ==
    [][/\ \A i \in DOMAIN requests :
             FetchFails(i) =>
                /\ error' \in {Message("Failed to load transactions"),
                                Message("Failed to fetch")}
                /\ transactions' = transactions
                /\ Len(requests') = Len(requests)
                /\ \A j \in DOMAIN requests : j # i => requests'[j] = requests[j]
       /\ Len(requests') > Len(requests) =>
             \/ Mount
             \/ handleSubmit
             \/ handleDelete
             \/ \E i \in DOMAIN requests :
                   /\ requests[i].method \in {"POST", "DELETE"}
                   /\ requests[i].stage # "done"
                   /\ requests'[i] = Done(requests[i], TRUE)
      ]_vars

\* the re-fetch after a create has failed while the page held a list: the
\* list is still there and nothing is in flight
C23_Witness ==
    /\ transactions # <<>>
    /\ \E i \in DOMAIN requests : requests[i] = [method |-> "GET", wait |-> "submit",
                                                 stage |-> "done", ok |-> FALSE]
    /\ \A i \in DOMAIN requests : requests[i].stage = "done"


\* every request the page has issued has completed, each with an OK response
AllCompleted ==
    /\ requests # <<>>
    /\ \A i \in DOMAIN requests : requests[i].stage = "done" /\ requests[i].ok

\* C25: for every interleaving of the responses of overlapping requests
\* issued by the home page (initial load, creates, deletes and the re-fetch
\* after each successful create or delete), once all of the page's requests
\* have completed and no other client has written, the transaction list
\* shown by the page equals the store's current contents.
C25_ListMatchesStore ==
    AllCompleted => transactions \in SelectOrdered(rows, created_at)


\* the form starts a create request in this step
CreateStarted ==
    /\ Len(requests') > Len(requests)
    /\ requests'[Len(requests')].method = "POST"

\* C30: no request outcome leaves the home page stuck in a busy state: the
\* initial load eventually sets loading to false, and every create request
\* that was started eventually sets submitting back to false, whether the
\* request succeeded, returned an error status or threw; and while
\* submitting is true no second create request is started by the form.
C30_NeverStuckBusy ==
    /\ <>(~loading)
    /\ submitting ~> ~submitting
    /\ [][CreateStarted => ~submitting /\ submitting']_vars

\* submitting is back to false after a create that succeeded, one that was
\* answered with an error status and one whose re-fetch threw
C30_Witness ==
    /\ ~submitting
    /\ ~loading
    /\ Len(requests) = 4
    /\ requests[2] = [method |-> "POST", wait |-> "submit", stage |-> "done", ok |-> TRUE]
    /\ requests[3] = [method |-> "GET", wait |-> "submit", stage |-> "done", ok |-> FALSE]
    /\ requests[4] = [method |-> "POST", wait |-> "submit", stage |-> "done", ok |-> FALSE]


-----------------------------------------------------------------------------
(* Initialisation of the table under concurrent handlers *)

\* an initDb call of this process has completed successfully
InitDbCompleted == \E k \in DOMAIN handlers : handlers[k].inited

\* handler h runs its statement in this step
RunsStatement(h) == handlers[h].pc = "statement" /\ handlers'[h].pc = "done"

\* the initDb call of handler h fails in this step
InitDbFailed(h) ==
    handlers[h].pc \in {"initDb", "initDbReturns"} /\ handlers'[h].pc = "done"

\* C26: in every interleaving of concurrent GET, POST and DELETE handlers of
\* one server process, no handler runs its SELECT, INSERT or DELETE statement
\* before an initDb call has completed successfully (so the table exists),
\* and the initialized flag is true only after an initDb call has completed
\* successfully; a failed initDb does not set it, so a request that finds it
\* false initialises again.
C26_InitBeforeStatement ==
    [][/\ initialized => InitDbCompleted
       /\ initialized' => InitDbCompleted'
       /\ \A h \in DOMAIN handlers :
             /\ RunsStatement(h) => InitDbCompleted /\ tableExists
             /\ InitDbFailed(h) => initialized' = initialized
             /\ (handlers[h].pc = "ensureInit" /\ ~initialized)
                   => handlers'[h].pc \in {"ensureInit", "initDb"}
      ]_vars

\* three handlers were called before any initialisation had finished: the
\* initDb of the first failed, that of the second succeeded, and the third,
\* having called initDb itself, has run its statement
C26_Witness ==
    /\ Len(handlers) = 3
    /\ handlers[1].pc = "done" /\ ~handlers[1].inited
    /\ handlers[2].inited
    /\ handlers[3].pc = "done" /\ handlers[3].inited
    /\ rows # <<>>


-----------------------------------------------------------------------------
(* The home page over the list as GET returns it *)

\* C27: when the home page groups the list exactly as the GET endpoint
\* returns it (date descending, createdAt descending), the month groups come
\* out in strictly descending (year, month) order and, inside every group,
\* the transactions are in non-increasing date order.  (A step that answers
\* with a body is a GET.)
C27_GroupsFollowListOrder ==
    [][("body" \in DOMAIN response') =>
          \A showAll \in BOOLEAN :
              \A groups \in {GroupedTransactions(response'.body, showAll, now, tz)} :
                  /\ \A g, h \in DOMAIN groups :
                        g < h => MonthIndex(groups[g]) > MonthIndex(groups[h])
                  /\ \A g \in DOMAIN groups :
                        \A i, j \in DOMAIN groups[g].transactions :
                            i < j => DateNumber(groups[g].transactions[i].date)
                                        >= DateNumber(groups[g].transactions[j].date)
      ]_vars

\* a returned list of three records, created oldest date first: two groups,
\* the first one with two days of March
C27_Witness ==
    /\ "body" \in DOMAIN response
    /\ Len(response.body) = 3
    /\ response.body[1].id = 3
    /\ response.body[3].id = 1
    /\ LET groups == GroupedTransactions(response.body, TRUE, now, tz)
       IN  /\ Len(groups) = 2
           /\ Len(groups[1].transactions) = 2
           /\ groups[1].transactions[1].date # groups[1].transactions[2].date


-----------------------------------------------------------------------------
(* Home page: the Flow card and the month list *)

\* the figure of the "Flow (This Month)" card
Flow == monthlyIncome(transactions, now) - monthlyExpense(transactions, now)

\* the groups of the month of the current time, among all the groups
CurrentMonthGroups ==
    SelectSeq(GroupedTransactions(transactions, TRUE, now, tz),
              LAMBDA e : e.key = getMonthYear(now.date))

\* C28: on the home page, for every transaction list and current time, the
\* "Flow (This Month)" card is consistent with the month list:
\* monthlyIncome - monthlyExpense (monthlyExpense counting expense and saved)
\* equals the total of the current month's group, and 0 when the current
\* month has no group; with "all months" off the grouped view contains the
\* current month's group and no other group.
C28_FlowMatchesMonthGroup ==
    /\ Len(CurrentMonthGroups) <= 1
    /\ Flow = (IF CurrentMonthGroups = <<>> THEN 0 ELSE CurrentMonthGroups[1].total)
    /\ ~showAllMonths => groupedTransactions = CurrentMonthGroups

\* the same on a host whose time zone is UTC
C28_OnUtcHost == tz = 0 => C28_FlowMatchesMonthGroup


-----------------------------------------------------------------------------
(* The sort headers *)

\* C29: the sort-header state machine starts from (date, desc); after any
\* sequence of header clicks, clicking the currently active sort column
\* flips the order between asc and desc and keeps the field, while clicking
\* a different column makes it the sort field and sets the order to desc; no
\* click changes the transaction list, the filters or the month scope.  (The
\* column clicked is the sort field after the click in both cases.)
C29_SortHeaderMachine ==
    /\ sortField = "date" /\ sortOrder = "desc"
    /\ [][handleSort =>
             /\ sortField' \in SortFields
             /\ IF sortField' = sortField
                THEN sortOrder' = (IF sortOrder = "asc" THEN "desc" ELSE "asc")
                ELSE sortOrder' = "desc"
             /\ UNCHANGED <<transactions, showAllMonths, searchQuery, startDate,
                            endDate, minAmount, maxAmount, typeFilter>>
         ]_vars

\* the amount column clicked twice over a loaded list, the month buttons used
C29_Witness ==
    /\ sortField = "amount"
    /\ sortOrder = "asc"
    /\ transactions # <<>>
    /\ showAllMonths

====
